---- MODULE Spec2Model ----
(***************************************************************************)
(* A model of cmd::CmdParser (CmdParser.hpp): the argument registry, the   *)
(* per-type value coercions, the parse loop with its error protocol and    *)
(* the help text.                                                          *)
(*                                                                         *)
(* Text is a sequence of one-character strings, so "-a=1" is               *)
(* <<"-","a","=","1">>.  std::optional<T> is a sequence of length 0        *)
(* (nullopt) or 1.  The caller's variables are the cells of `store`.       *)
(* Floating point destinations are not modelled.                           *)
(***************************************************************************)
EXTENDS Integers, Sequences, FiniteSets, TLC

VARIABLES
    flags_,        \* std::vector<FlagArg>
    args_,         \* std::vector<std::unique_ptr<Arg>>
    invoke_name_,  \* std::string; <<"?">> until a parse call sets it
    store,         \* the caller-owned variables the entries refer to
    scenario,      \* which registration script built the registry
    pc,            \* "idle" | "parsing" | "done": position of the parse call
    argv,          \* the token vector of the current parse call
    reportUnknown, \* ReportUnknownArgs: the UnknownArgPolicy template argument
    voidHandler,   \* TRUE iff the ErrorHandler returns void
    i,             \* the loop variable of parse
    success,       \* the local `success` of parse
    result,        \* what parse returned, <<>> while it has not returned
    calls,         \* the errors the handler received, in order
    reads,         \* the argv indices parse has read, in order, each as the
                   \* token of a loop iteration ("key") or as its parameter
    sets,          \* the Arg::set calls parse has made, in order, each with
                   \* the referenced variable's value before and after
    parseCalls,    \* how many parse calls this parser has started
    entryStore,    \* the caller's variables as the current parse call found them
    pushes,        \* the accepted pushFlag / push calls, in order, each with
                   \* the referenced variable's value at the time of the call
    helpText,      \* what the last getHelpText call returned, <<>> before it
    aborted        \* the pushFlag / push call whose assertion failed and ended
                   \* the program, <<>> while there is none

vars == <<flags_, args_, invoke_name_, store, scenario, pc, argv,
          reportUnknown, voidHandler, i, success, result, calls, reads, sets,
          parseCalls, entryStore, pushes, helpText, aborted>>

\* ------------------------------------------------------------------ bounds
\* Width in bits of the std::int64_t / std::uint64_t accumulators of
\* trySetSignedInteger / trySetUnsignedInteger.  TLC integers are 32 bits
\* wide, so the model scales the accumulator (and the widest destinations,
\* "int64_t" and "uint64_t") down to AccBits; the narrow destinations keep
\* their real width.
AccBits == 24
\* The largest number of tokens after argv[0] in the dispatch scenario.
MaxArgs == 3

\* ------------------------------------------------------------------- text
RECURSIVE Pow2(_)
Pow2(n) == IF n = 0 THEN 1 ELSE 2 * Pow2(n - 1)

nullopt == <<>>
Some(v) == <<v>>

UpperChars == <<"A","B","C","D","E","F","G","H","I","J","K","L","M",
                "N","O","P","Q","R","S","T","U","V","W","X","Y","Z">>
LowerChars == <<"a","b","c","d","e","f","g","h","i","j","k","l","m",
                "n","o","p","q","r","s","t","u","v","w","x","y","z">>

isupper(c) == \E k \in 1..Len(UpperChars) : UpperChars[k] = c
tolower(c) ==
    IF isupper(c)
    THEN LowerChars[CHOOSE k \in 1..Len(UpperChars) : UpperChars[k] = c]
    ELSE c

\* std::string_view::find(ch): the first position (0-based) or npos.
npos == -1
Find(s, ch) ==
    IF \E k \in 1..Len(s) : s[k] = ch
    THEN (CHOOSE k \in 1..Len(s) : s[k] = ch /\ \A j \in 1..(k-1) : s[j] # ch) - 1
    ELSE npos

\* std::string_view::substr(pos), pos <= size.
SubstrFrom(s, pos) == SubSeq(s, pos + 1, Len(s))

CharArgDelim == "-"
WordArgDelim == <<"-", "-">>
ParamDelim == "="

TrueStrings == << <<"t","r","u","e">>, <<"t">>, <<"y","e","s">>, <<"y">>, <<"1">> >>
FalseStrings == << <<"f","a","l","s","e">>, <<"f">>, <<"n","o">>, <<"n">>, <<"0">> >>

\* Faulty variant: an empty attached parameter counts as no parameter.
splitCmd_EmptyIsAbsent(input) ==
    LET splitPos == Find(input, ParamDelim) IN
    IF splitPos = npos \/ splitPos + 1 = Len(input)
    THEN [cmd |-> IF splitPos = npos THEN input ELSE SubSeq(input, 1, splitPos),
          param |-> nullopt]
    ELSE [cmd |-> SubSeq(input, 1, splitPos),
          param |-> Some(SubstrFrom(input, splitPos + 1))]

\* splitCmd: the key before the first '=', and the attached parameter if
\* there is a '='.
splitCmd(input) ==
    LET splitPos == Find(input, ParamDelim) IN
    IF splitPos = npos
    THEN [cmd |-> input, param |-> nullopt]
    ELSE [cmd |-> SubSeq(input, 1, splitPos),
          param |-> Some(SubstrFrom(input, splitPos + 1))]

\* --------------------------------------------------------------- registry
\* Detail::toString for the integral types: the decimal text of val.
DecDigits == <<"0","1","2","3","4","5","6","7","8","9">>
RECURSIVE NatToString(_)
NatToString(n) ==
    IF n < 10 THEN <<DecDigits[n + 1]>>
    ELSE NatToString(n \div 10) \o <<DecDigits[(n % 10) + 1]>>
toString(val) ==
    IF val < 0 THEN <<"-">> \o NatToString(0 - val) ELSE NatToString(val)

BoolStr(b) == IF b THEN <<"t","r","u","e">> ELSE <<"f","a","l","s","e">>

\* The two constructors of struct Arg.
Arg4(charKey, wordKey, defaultValStr, description) ==
    [charKey |-> charKey, wordKey |-> wordKey,
     defaultValStr |-> defaultValStr, description |-> description]
Arg3(charKey, wordKey, description) ==
    [charKey |-> charKey, wordKey |-> wordKey,
     defaultValStr |-> <<>>, description |-> description]

hasCharKey(arg, key) == arg.base.charKey # nullopt /\ arg.base.charKey[1] = key
hasWordKey(arg, key) == arg.base.wordKey # nullopt /\ arg.base.wordKey[1] = key

\* The derived entry types.  Each passes (desc, defaultValStr) to the
\* four-argument Arg constructor, in that order, as the source does.
FlagArg(charKey, wordKey, defaultValStr, desc, arg, defaultVal) ==
    [base |-> Arg4(charKey, wordKey, desc, defaultValStr), kind |-> "Flag",
     type |-> "bool", ref |-> arg, defaultVal |-> defaultVal]
BoolArg(charKey, wordKey, defaultValStr, desc, arg) ==
    [base |-> Arg4(charKey, wordKey, desc, defaultValStr), kind |-> "Bool",
     type |-> "bool", ref |-> arg]
NumericArg(type, charKey, wordKey, defaultValStr, desc, arg) ==
    [base |-> Arg4(charKey, wordKey, desc, defaultValStr), kind |-> "Numeric",
     type |-> type, ref |-> arg]
StringArg(charKey, wordKey, defaultValStr, desc, arg) ==
    [base |-> Arg4(charKey, wordKey, desc, defaultValStr), kind |-> "String",
     type |-> "string", ref |-> arg]
OptionalArg(type, charKey, wordKey, desc, arg) ==
    [base |-> Arg3(charKey, wordKey, desc), kind |-> "Optional",
     type |-> type, ref |-> arg]

\* Faulty variant: the keys are compared with those of the flags only.
checkUnique_FlagsOnly(flags, args, charKey, wordKey) ==
    /\ charKey # nullopt =>
          \A k \in 1..Len(flags) :
              flags[k].base.charKey = nullopt \/ flags[k].base.charKey[1] # charKey[1]
    /\ wordKey # nullopt =>
          \A k \in 1..Len(flags) :
              flags[k].base.wordKey = nullopt \/ flags[k].base.wordKey[1] # wordKey[1]

\* checkUnique / checkValid: TRUE iff no assertion fails.
checkUnique(flags, args, charKey, wordKey) ==
    /\ charKey # nullopt =>
        /\ \A k \in 1..Len(flags) :
              flags[k].base.charKey = nullopt \/ flags[k].base.charKey[1] # charKey[1]
        /\ \A k \in 1..Len(args) :
              args[k].base.charKey = nullopt \/ args[k].base.charKey[1] # charKey[1]
    /\ wordKey # nullopt =>
        /\ \A k \in 1..Len(flags) :
              flags[k].base.wordKey = nullopt \/ flags[k].base.wordKey[1] # wordKey[1]
        /\ \A k \in 1..Len(args) :
              args[k].base.wordKey = nullopt \/ args[k].base.wordKey[1] # wordKey[1]

checkValid(flags, args, charKey, wordKey, verifyUnique) ==
    /\ charKey # nullopt \/ wordKey # nullopt
    /\ wordKey # nullopt => (wordKey[1] # <<>> /\ wordKey[1][1] # CharArgDelim)
    /\ verifyUnique => checkUnique(flags, args, charKey, wordKey)

IntegerTypes == {"int8_t", "uint8_t", "int16_t", "uint16_t", "int64_t", "uint64_t"}
ArithmeticTypes == IntegerTypes \cup {"char"}

\* pushFlag and the push overloads.  c is the call: the referenced variable
\* (a cell of st), its static type and the remaining arguments.  The result
\* is the registry after the call; a call whose assertions fail is dropped.
pushFlag(reg, st, c) ==
    IF ~checkValid(reg.flags, reg.args, c.charKey, c.wordKey, c.verifyUnique)
    THEN reg
    ELSE [reg EXCEPT !.flags = Append(@,
            FlagArg(c.charKey, c.wordKey, BoolStr(st[c.ref]), c.description,
                    c.ref, st[c.ref]))]

\* Faulty variant: the new argument is put in front of the earlier ones.
push_Prepends(reg, st, c) ==
    IF ~checkValid(reg.flags, reg.args, c.charKey, c.wordKey, c.verifyUnique)
    THEN reg
    ELSE [reg EXCEPT !.args = <<
            CASE c.optional ->
                   OptionalArg(c.type, c.charKey, c.wordKey, c.description, c.ref)
              [] c.type = "bool" ->
                   BoolArg(c.charKey, c.wordKey, BoolStr(st[c.ref]),
                           c.description, c.ref)
              [] c.type \in IntegerTypes ->
                   NumericArg(c.type, c.charKey, c.wordKey, toString(st[c.ref]),
                              c.description, c.ref)
              [] c.type = "char" ->
                   NumericArg(c.type, c.charKey, c.wordKey, <<st[c.ref]>>,
                              c.description, c.ref)
              [] OTHER ->
                   StringArg(c.charKey, c.wordKey,
                             IF st[c.ref] # <<>>
                             THEN <<"\"">> \o st[c.ref] \o <<"\"">> ELSE <<>>,
                             c.description, c.ref) >> \o @]

push(reg, st, c) ==
    IF ~checkValid(reg.flags, reg.args, c.charKey, c.wordKey, c.verifyUnique)
    THEN reg
    ELSE [reg EXCEPT !.args = Append(@,
            CASE c.optional ->
                   OptionalArg(c.type, c.charKey, c.wordKey, c.description, c.ref)
              [] c.type = "bool" ->
                   BoolArg(c.charKey, c.wordKey, BoolStr(st[c.ref]),
                           c.description, c.ref)
              [] c.type \in IntegerTypes ->
                   NumericArg(c.type, c.charKey, c.wordKey, toString(st[c.ref]),
                              c.description, c.ref)
              [] c.type = "char" ->
                   NumericArg(c.type, c.charKey, c.wordKey, <<st[c.ref]>>,
                              c.description, c.ref)
              [] OTHER ->
                   StringArg(c.charKey, c.wordKey,
                             IF st[c.ref] # <<>>
                             THEN <<"\"">> \o st[c.ref] \o <<"\"">> ELSE <<>>,
                             c.description, c.ref))]

\* A registration script applied call by call to the empty parser.
RECURSIVE Register(_, _, _)
Register(reg, st, script) ==
    IF script = <<>> THEN reg
    ELSE Register(IF script[1].op = "pushFlag"
                  THEN pushFlag(reg, st, script[1])
                  ELSE push(reg, st, script[1]),
                  st, Tail(script))

EmptyRegistry == [flags |-> <<>>, args |-> <<>>]

\* --------------------------------------------------------------- coercion
\* A coercion returns [ok, val]: whether it succeeded and what the referenced
\* variable holds afterwards (cur, its value before, when it is not written).

\* Faulty variant: the keywords are compared without lower-casing the input.
trySetBool_CaseSensitive(cur, input) ==
    IF \E k \in 1..Len(TrueStrings) : input = TrueStrings[k]
    THEN [ok |-> TRUE, val |-> TRUE]
    ELSE IF \E k \in 1..Len(FalseStrings) : input = FalseStrings[k]
    THEN [ok |-> TRUE, val |-> FALSE]
    ELSE [ok |-> FALSE, val |-> cur]
\* Faulty variant: a text that is no keyword stores false.
trySetBool_ClearsOnFailure(cur, input) ==
    LET lower == [k \in 1..Len(input) |-> tolower(input[k])] IN
    IF \E k \in 1..Len(TrueStrings) : lower = TrueStrings[k]
    THEN [ok |-> TRUE, val |-> TRUE]
    ELSE IF \E k \in 1..Len(FalseStrings) : lower = FalseStrings[k]
    THEN [ok |-> TRUE, val |-> FALSE]
    ELSE [ok |-> FALSE, val |-> FALSE]
trySetBool(cur, input) ==
    LET lower == [k \in 1..Len(input) |-> tolower(input[k])] IN
    IF \E k \in 1..Len(TrueStrings) : lower = TrueStrings[k]
    THEN [ok |-> TRUE, val |-> TRUE]
    ELSE IF \E k \in 1..Len(FalseStrings) : lower = FalseStrings[k]
    THEN [ok |-> TRUE, val |-> FALSE]
    ELSE [ok |-> FALSE, val |-> cur]

IsUnsignedType(type) == type \in {"uint8_t", "uint16_t", "uint64_t"}
TypeBits(type) ==
    CASE type \in {"int8_t", "uint8_t"} -> 8
      [] type \in {"int16_t", "uint16_t"} -> 16
      [] OTHER -> AccBits
\* std::numeric_limits<ArgType>::max() and ::lowest().
NumericMax(type) ==
    IF IsUnsignedType(type) THEN Pow2(TypeBits(type)) - 1
    ELSE Pow2(TypeBits(type) - 1) - 1
NumericLowest(type) ==
    IF IsUnsignedType(type) THEN 0 ELSE 0 - Pow2(TypeBits(type) - 1)

\* Faulty variant: an in-range accumulator value is stored without saturating.
trySetArithmeticResult_NoClamp(type, cur, val, errc, isPositive) ==
    IF errc = "ok" THEN [ok |-> TRUE, val |-> val]
    ELSE IF errc = "result_out_of_range"
    THEN [ok |-> TRUE,
          val |-> IF isPositive THEN NumericMax(type) ELSE NumericLowest(type)]
    ELSE [ok |-> FALSE, val |-> cur]
trySetArithmeticResult(type, cur, val, errc, isPositive) ==
    IF errc = "ok"
    THEN [ok |-> TRUE,
          val |-> IF val > NumericMax(type) THEN NumericMax(type)
                  ELSE IF val < NumericLowest(type) THEN NumericLowest(type)
                  ELSE val]
    ELSE IF errc = "result_out_of_range"
    THEN [ok |-> TRUE,
          val |-> IF isPositive THEN NumericMax(type) ELSE NumericLowest(type)]
    ELSE [ok |-> FALSE, val |-> cur]

Hex == <<"0", "x">>
NegativeHex == <<"-", "0", "x">>
BufferSize == 64

Min(a, b) == IF a < b THEN a ELSE b

getNegativeHexView(input) ==
    LET copied == SubSeq(input, 4, 3 + Min(Len(input) - 3, BufferSize - 2))
        buffer == <<"-">> \o copied
    IN  SubSeq(buffer, 1, Min(Len(input) - 2, BufferSize))

caseInsensitiveComp(lhs, rhs) == lhs = rhs \/ tolower(lhs) = tolower(rhs)

getNumericStringType(input) ==
    IF Len(input) > 2
    THEN IF \A k \in 1..Len(Hex) : caseInsensitiveComp(Hex[k], input[k])
         THEN "Hex"
         ELSE IF \A k \in 1..Len(NegativeHex) :
                     caseInsensitiveComp(NegativeHex[k], input[k])
         THEN "NegativeHex"
         ELSE "General"
    ELSE "General"

\* std::from_chars for an integer of the given width: an optional '-'
\* (signed only), then the longest run of digits of the base.  No digits is
\* invalid_argument; a run whose value does not fit is result_out_of_range;
\* in both cases val keeps the 0 the caller initialised it with.
HexDigits == <<"0","1","2","3","4","5","6","7","8","9","a","b","c","d","e","f">>
IsDigit(c, base) == \E k \in 1..base : HexDigits[k] = tolower(c)
DigitVal(c) == (CHOOSE k \in 1..16 : HexDigits[k] = tolower(c)) - 1

RECURSIVE DigitRun(_, _, _)
DigitRun(s, from, base) ==
    IF from <= Len(s) /\ IsDigit(s[from], base)
    THEN 1 + DigitRun(s, from + 1, base)
    ELSE 0

\* The value of the digits s[from..to], or limit + 1 once it exceeds limit.
RECURSIVE Accumulate(_, _, _, _, _)
Accumulate(s, from, to, base, limit) ==
    IF to < from THEN 0
    ELSE LET a == Accumulate(s, from, to - 1, base, limit) IN
         IF a > limit THEN limit + 1
         ELSE Min(a * base + DigitVal(s[to]), limit + 1)

\* Faulty variant: characters after the digits make the conversion fail.
from_chars_WholeToken(input, base, isSigned) ==
    LET neg == isSigned /\ Len(input) >= 1 /\ input[1] = "-"
        start == IF neg THEN 2 ELSE 1
        n == DigitRun(input, start, base)
        limit == IF isSigned
                 THEN (IF neg THEN Pow2(AccBits - 1) ELSE Pow2(AccBits - 1) - 1)
                 ELSE Pow2(AccBits) - 1
        mag == Accumulate(input, start, start + n - 1, base, limit)
    IN  IF n = 0 \/ start + n - 1 # Len(input)
        THEN [ec |-> "invalid_argument", val |-> 0]
        ELSE IF mag > limit THEN [ec |-> "result_out_of_range", val |-> 0]
        ELSE [ec |-> "ok", val |-> IF neg THEN 0 - mag ELSE mag]

from_chars(input, base, isSigned) ==
    LET neg == isSigned /\ Len(input) >= 1 /\ input[1] = "-"
        start == IF neg THEN 2 ELSE 1
        n == DigitRun(input, start, base)
        limit == IF isSigned
                 THEN (IF neg THEN Pow2(AccBits - 1) ELSE Pow2(AccBits - 1) - 1)
                 ELSE Pow2(AccBits) - 1
        mag == Accumulate(input, start, start + n - 1, base, limit)
    IN  IF n = 0 THEN [ec |-> "invalid_argument", val |-> 0]
        ELSE IF mag > limit THEN [ec |-> "result_out_of_range", val |-> 0]
        ELSE [ec |-> "ok", val |-> IF neg THEN 0 - mag ELSE mag]

trySetSignedInteger(type, cur, input0) ==
    LET t == getNumericStringType(input0)
        input == CASE t = "Hex" -> SubstrFrom(input0, Len(Hex))
                   [] t = "NegativeHex" -> getNegativeHexView(input0)
                   [] OTHER -> input0
        base == IF t = "General" THEN 10 ELSE 16
        r == from_chars(input, base, TRUE)
    IN  IF t = "Hex" /\ input = <<>> THEN [ok |-> FALSE, val |-> cur]
        ELSE trySetArithmeticResult(type, cur, r.val, r.ec, input[1] = "-")

trySetUnsignedInteger(type, cur, input0) ==
    LET t == getNumericStringType(input0)
        input == IF t = "Hex" THEN SubstrFrom(input0, Len(Hex)) ELSE input0
        base == IF t = "General" THEN 10 ELSE 16
        r == from_chars(input, base, FALSE)
    IN  IF (t = "Hex" /\ input = <<>>) \/ t = "NegativeHex"
        THEN [ok |-> FALSE, val |-> cur]
        ELSE trySetArithmeticResult(type, cur, r.val, r.ec, input[1] = "-")

\* Faulty variant: a rejected integer text clears the variable.
trySetArithmetic_ClearsOnFailure(type, cur, input) ==
    LET r == IF input = <<>> THEN [ok |-> FALSE, val |-> cur]
             ELSE IF type \in IntegerTypes
             THEN IF IsUnsignedType(type)
                  THEN trySetUnsignedInteger(type, cur, input)
                  ELSE trySetSignedInteger(type, cur, input)
             ELSE IF Len(input) # 1 THEN [ok |-> FALSE, val |-> cur]
                  ELSE [ok |-> TRUE, val |-> input[1]]
    IN  IF ~r.ok /\ type \in IntegerTypes THEN [ok |-> FALSE, val |-> 0] ELSE r

trySetArithmetic(type, cur, input) ==
    IF input = <<>> THEN [ok |-> FALSE, val |-> cur]
    ELSE IF type \in IntegerTypes
    THEN IF IsUnsignedType(type)
         THEN trySetUnsignedInteger(type, cur, input)
         ELSE trySetSignedInteger(type, cur, input)
    ELSE \* char
         IF Len(input) # 1 THEN [ok |-> FALSE, val |-> cur]
         ELSE [ok |-> TRUE, val |-> input[1]]

setStringType(cur, input) == [ok |-> TRUE, val |-> input]

\* Arg::set, the virtual call: [ok, store] with the store after the call.
\* Faulty variant: the flag is toggled instead of set to the negation of its default.
FlagArg_set_Toggles(arg, st) == [ok |-> TRUE, store |-> [st EXCEPT ![arg.ref] = ~st[arg.ref]]]
\* Faulty variant: the flag is set to true instead of to the negation of its default.
FlagArg_set_AlwaysTrue(arg, st) == [ok |-> TRUE, store |-> [st EXCEPT ![arg.ref] = TRUE]]
FlagArg_set(arg, st) == [ok |-> TRUE, store |-> [st EXCEPT ![arg.ref] = ~arg.defaultVal]]

\* Faulty variant: a rejected text leaves an Optional destination engaged,
\* holding a value-initialised T.
Arg_set_EngagesOnFailure(arg, st, input) ==
    LET cur == st[arg.ref]
        r == CASE arg.type = "bool" -> trySetBool(cur, input)
               [] arg.type \in ArithmeticTypes -> trySetArithmetic(arg.type, cur, input)
               [] OTHER -> setStringType(cur, input)
    IN  CASE arg.kind = "Flag" -> FlagArg_set(arg, st)
          [] arg.kind = "Optional" ->
               [ok |-> r.ok,
                store |-> [st EXCEPT ![arg.ref] =
                              IF r.ok THEN Some(r.val)
                              ELSE IF arg.type \in IntegerTypes THEN Some(0)
                              ELSE Some(<<>>)]]
          [] OTHER ->
               [ok |-> r.ok, store |-> [st EXCEPT ![arg.ref] = r.val]]

Arg_set(arg, st, input) ==
    LET cur == st[arg.ref]
        r == CASE arg.type = "bool" -> trySetBool(cur, input)
               [] arg.type \in ArithmeticTypes -> trySetArithmetic(arg.type, cur, input)
               [] OTHER -> setStringType(cur, input)
    IN  CASE arg.kind = "Flag" -> FlagArg_set(arg, st)
          [] arg.kind = "Optional" ->
               [ok |-> r.ok,
                store |-> IF r.ok THEN [st EXCEPT ![arg.ref] = Some(r.val)] ELSE st]
          [] OTHER ->
               [ok |-> r.ok, store |-> [st EXCEPT ![arg.ref] = r.val]]

\* ------------------------------------------------------------ getHelpText
Repeat(c, n) == [k \in 1..n |-> c]
HelpRule == Repeat("-", 40) \o <<"\n">>
KeySpacer == Repeat(".", 25)
DefaultHeader == <<"[","d","e","f","a","u","l","t",":"," ">>
DefaultSpacer == Repeat(" ", 7)
DefaultEnd == <<"]"," ">>
NoDefaultSpacer == Repeat(".", 18) \o <<" ">>
FlagsHeading == <<"F","l","a","g","s",":">> \o <<"\n">>
ArgumentsHeading == <<"A","r","g","u","m","e","n","t","s",":">> \o <<"\n">>

\* The lambda writeArg: the line of one entry.
writeArg(arg) ==
    LET b == arg.base
        charPart == IF b.charKey # nullopt THEN <<CharArgDelim, b.charKey[1]>>
                    ELSE <<" ", " ">>
        argSize == Len(WordArgDelim) + Len(b.wordKey[1]) + 1
        wordPart == IF b.wordKey # nullopt
                    THEN WordArgDelim \o b.wordKey[1] \o <<" ">>
                         \o (IF argSize < Len(KeySpacer)
                             THEN SubSeq(KeySpacer, 1, Len(KeySpacer) - argSize)
                             ELSE <<>>)
                    ELSE KeySpacer
        size == Len(b.defaultValStr)
        defaultPart == IF b.defaultValStr # <<>>
                       THEN DefaultHeader
                            \o (IF size < Len(DefaultSpacer)
                                THEN SubSeq(DefaultSpacer, 1, Len(DefaultSpacer) - size)
                                ELSE <<>>)
                            \o b.defaultValStr \o DefaultEnd
                       ELSE NoDefaultSpacer
    IN  <<" ">> \o charPart \o <<" ">> \o wordPart \o defaultPart
        \o b.description \o <<"\n">>

RECURSIVE writeArgs(_)
writeArgs(entries) ==
    IF entries = <<>> THEN <<>>
    ELSE writeArg(entries[1]) \o writeArgs(Tail(entries))

getHelpText(flags, args, programDescription) ==
    HelpRule
    \o (IF programDescription # <<>> THEN programDescription \o <<"\n">> ELSE <<>>)
    \o (IF flags # <<>> THEN FlagsHeading \o writeArgs(flags) ELSE <<>>)
    \o (IF args # <<>> THEN ArgumentsHeading \o writeArgs(args) ELSE <<>>)
    \o <<"\n">>

\* ------------------------------------------------------------------ parse
\* A parse call is described by p = [flags, args, argv, reportUnknown,
\* voidHandler] and its progress by s = [pc, i, success, result, store,
\* calls, reads, sets].  argv[0] of the source is argv[1] here.
argc(p) == Len(p.argv)
Argv(p, k) == p.argv[k + 1]

\* std::find_if over a vector: the first position that satisfies Test, 0 for
\* end().
FindFlagByWord(flags, cmd) ==
    IF \E k \in 1..Len(flags) : hasWordKey(flags[k], cmd)
    THEN CHOOSE k \in 1..Len(flags) :
            hasWordKey(flags[k], cmd) /\ \A j \in 1..(k-1) : ~hasWordKey(flags[j], cmd)
    ELSE 0
FindByChar(v, c) ==
    IF \E k \in 1..Len(v) : hasCharKey(v[k], c)
    THEN CHOOSE k \in 1..Len(v) :
            hasCharKey(v[k], c) /\ \A j \in 1..(k-1) : ~hasCharKey(v[j], c)
    ELSE 0
\* Faulty variant: the last entry with the word key is found, not the first.
FindArgByWord_Last(args, cmd) ==
    IF \E k \in 1..Len(args) : hasWordKey(args[k], cmd)
    THEN CHOOSE k \in 1..Len(args) :
            hasWordKey(args[k], cmd)
            /\ \A j \in (k+1)..Len(args) : ~hasWordKey(args[j], cmd)
    ELSE 0
FindArgByWord(args, cmd) ==
    IF \E k \in 1..Len(args) : hasWordKey(args[k], cmd)
    THEN CHOOSE k \in 1..Len(args) :
            hasWordKey(args[k], cmd) /\ \A j \in 1..(k-1) : ~hasWordKey(args[j], cmd)
    ELSE 0

\* reportErrorAndContinue: marks the parse failed and hands the error to the
\* handler; ret is what a handler that returns ErrorResult answers.  `at` is
\* the index of the token the loop iteration started with.
\* Faulty variant: the error is handed over but the parse is not marked failed.
reportErrorAndContinue_KeepsSuccess(p, s, at, kind, parts, ret) ==
    [s EXCEPT !.calls = Append(@, [at |-> at, kind |-> kind, parts |-> parts,
                                   ret |-> IF p.voidHandler THEN "void" ELSE ret])]
reportErrorAndContinue(p, s, at, kind, parts, ret) ==
    [s EXCEPT !.success = FALSE,
              !.calls = Append(@, [at |-> at, kind |-> kind, parts |-> parts,
                                   ret |-> IF p.voidHandler THEN "void" ELSE ret])]
\* Faulty variant: the handler's answer is ignored.
ShouldContinue_Always(p, ret) == TRUE
ShouldContinue(p, ret) == p.voidHandler \/ ret = "Continue"

ReturnFalse(s) == [s EXCEPT !.pc = "done", !.result = Some(FALSE)]

\* One error, then either `return false` or the given continuation.
ReportThen(p, s, at, kind, parts, ret, next) ==
    LET s1 == reportErrorAndContinue(p, s, at, kind, parts, ret) IN
    IF ShouldContinue(p, ret) THEN [s1 EXCEPT !.i = next] ELSE ReturnFalse(s1)

\* flag.set(): the store and the set log after the call.
SetFlag(p, s, at, f) ==
    LET r == FlagArg_set(p.flags[f], s.store) IN
    [s EXCEPT !.store = r.store,
              !.sets = Append(@, [at |-> at, family |-> "flag", entry |-> f,
                                  input |-> <<>>, ok |-> r.ok,
                                  before |-> s.store[p.flags[f].ref],
                                  stored |-> r.store[p.flags[f].ref]])]

\* Faulty variant: the loop goes on with the token after the key token, so
\* that a detached value is read again as a token of its own.
SetArgOrReport_RereadsValue(p, s, at, last, a, cmd, param, ret) ==
    IF a # 0
    THEN LET r == Arg_set(p.args[a], s.store, param)
             s1 == [s EXCEPT !.store = r.store,
                             !.sets = Append(@, [at |-> at, family |-> "arg",
                                                 entry |-> a, input |-> param,
                                                 ok |-> r.ok,
                                                 before |-> s.store[p.args[a].ref],
                                                 stored |-> r.store[p.args[a].ref]])]
         IN  IF r.ok THEN [s1 EXCEPT !.i = at + 1]
             ELSE ReportThen(p, s1, at, "UnexpectedFormatForArgument",
                             <<cmd, param>>, ret, at + 1)
    ELSE IF p.reportUnknown
         THEN ReportThen(p, s, at, "UnrecognizedCommand", <<cmd>>, ret, at + 1)
         ELSE [s EXCEPT !.i = at + 1]

\* Faulty variant: a failed coercion is not reported.
SetArgOrReport_SilentFailure(p, s, at, last, a, cmd, param, ret) ==
    IF a # 0
    THEN LET r == Arg_set(p.args[a], s.store, param) IN
         [s EXCEPT !.store = r.store,
                   !.sets = Append(@, [at |-> at, family |-> "arg",
                                       entry |-> a, input |-> param,
                                       ok |-> r.ok,
                                       before |-> s.store[p.args[a].ref],
                                       stored |-> r.store[p.args[a].ref]]),
                   !.i = last + 1]
    ELSE IF p.reportUnknown
         THEN ReportThen(p, s, at, "UnrecognizedCommand", <<cmd>>, ret, last + 1)
         ELSE [s EXCEPT !.i = last + 1]

\* Faulty variant: an unregistered key is reported whatever the policy.
SetArgOrReport_AlwaysReports(p, s, at, last, a, cmd, param, ret) ==
    IF a # 0
    THEN LET r == Arg_set(p.args[a], s.store, param)
             s1 == [s EXCEPT !.store = r.store,
                             !.sets = Append(@, [at |-> at, family |-> "arg",
                                                 entry |-> a, input |-> param,
                                                 ok |-> r.ok,
                                                 before |-> s.store[p.args[a].ref],
                                                 stored |-> r.store[p.args[a].ref]])]
         IN  IF r.ok THEN [s1 EXCEPT !.i = last + 1]
             ELSE ReportThen(p, s1, at, "UnexpectedFormatForArgument",
                             <<cmd, param>>, ret, last + 1)
    ELSE ReportThen(p, s, at, "UnrecognizedCommand", <<cmd>>, ret, last + 1)

\* The lookup among args_ and what follows it (lines 188-196 and 233-243):
\* a is the entry found (0 for none), last the index of the last token read.
\* Faulty variant: after an unregistered key the loop goes on with the next
\* token, also when that token was taken as the value.
SetArgOrReport_UnknownKeepsValue(p, s, at, last, a, cmd, param, ret) ==
    IF a # 0
    THEN LET r == Arg_set(p.args[a], s.store, param)
             s1 == [s EXCEPT !.store = r.store,
                             !.sets = Append(@, [at |-> at, family |-> "arg",
                                                 entry |-> a, input |-> param,
                                                 ok |-> r.ok,
                                                 before |-> s.store[p.args[a].ref],
                                                 stored |-> r.store[p.args[a].ref]])]
         IN  IF r.ok THEN [s1 EXCEPT !.i = last + 1]
             ELSE ReportThen(p, s1, at, "UnexpectedFormatForArgument",
                             <<cmd, param>>, ret, last + 1)
    ELSE IF p.reportUnknown
         THEN ReportThen(p, s, at, "UnrecognizedCommand", <<cmd>>, ret, at + 1)
         ELSE [s EXCEPT !.i = at + 1]

SetArgOrReport(p, s, at, last, a, cmd, param, ret) ==
    IF a # 0
    THEN LET r == Arg_set(p.args[a], s.store, param)
             s1 == [s EXCEPT !.store = r.store,
                             !.sets = Append(@, [at |-> at, family |-> "arg",
                                                 entry |-> a, input |-> param,
                                                 ok |-> r.ok,
                                                 before |-> s.store[p.args[a].ref],
                                                 stored |-> r.store[p.args[a].ref]])]
         IN  IF r.ok THEN [s1 EXCEPT !.i = last + 1]
             ELSE ReportThen(p, s1, at, "UnexpectedFormatForArgument",
                             <<cmd, param>>, ret, last + 1)
    ELSE IF p.reportUnknown
         THEN ReportThen(p, s, at, "UnrecognizedCommand", <<cmd>>, ret, last + 1)
         ELSE [s EXCEPT !.i = last + 1]

\* Faulty variant: the handler may continue after an unexpected termination.
Truncated_HonoursHandler(p, s, at, input, ret) ==
    ReportThen(p, s, at, "UnexpectedTermination", <<input>>, ret, at + 2)

\* Faulty variant: before it returns, the unexpected termination puts the
\* variable that was set last back to what it held before.
Truncated_UndoesLastSet(p, s, at, input, ret) ==
    LET s1 == reportErrorAndContinue(p, s, at, "UnexpectedTermination",
                                     <<input>>, ret)
        m == s.sets[Len(s.sets)]
        ref == IF m.family = "flag" THEN p.flags[m.entry].ref
               ELSE p.args[m.entry].ref
    IN  ReturnFalse(IF s.sets = <<>> THEN s1
                    ELSE [s1 EXCEPT !.store = [@ EXCEPT ![ref] = m.before]])

\* Faulty variant: argv[argc] is read before the termination is reported.
Truncated_ReadsPastEnd(p, s, at, input, ret) ==
    ReturnFalse(reportErrorAndContinue(
        p, [s EXCEPT !.reads = Append(@, [idx |-> at + 1, role |-> "value"])],
        at, "UnexpectedTermination", <<input>>, ret))

\* "Unexpected termination": reported, and parse returns false whatever the
\* handler answers.
Truncated(p, s, at, input, ret) ==
    ReturnFalse(reportErrorAndContinue(p, s, at, "UnexpectedTermination",
                                       <<input>>, ret))

\* Faulty variant: a word without inline value is looked up among the valued
\* arguments before the flags.
WordKeyToken_ArgsBeforeFlags(p, s, input, ret) ==
    LET at == s.i
        sp == splitCmd(SubstrFrom(input, Len(WordArgDelim)))
        f == IF FindArgByWord(p.args, sp.cmd) # 0 THEN 0
             ELSE FindFlagByWord(p.flags, sp.cmd)
        s2 == [s EXCEPT !.reads = Append(@, [idx |-> at + 1, role |-> "value"])]
    IN  IF sp.param # nullopt
        THEN SetArgOrReport(p, s, at, at, FindArgByWord(p.args, sp.cmd),
                            sp.cmd, sp.param[1], ret)
        ELSE IF f # 0
        THEN [SetFlag(p, s, at, f) EXCEPT !.i = at + 1]
        ELSE IF at + 1 >= argc(p)
        THEN Truncated(p, s, at, input, ret)
        ELSE SetArgOrReport(p, s2, at, at + 1, FindArgByWord(p.args, sp.cmd),
                            sp.cmd, Argv(p, at + 1), ret)

\* Faulty variant: a word that names a flag sets the flag also when an inline
\* value follows it.
WordKeyToken_FlagDropsInlineValue(p, s, input, ret) ==
    LET at == s.i
        sp == splitCmd(SubstrFrom(input, Len(WordArgDelim)))
        f == FindFlagByWord(p.flags, sp.cmd)
        s2 == [s EXCEPT !.reads = Append(@, [idx |-> at + 1, role |-> "value"])]
    IN  IF sp.param # nullopt /\ f = 0
        THEN SetArgOrReport(p, s, at, at, FindArgByWord(p.args, sp.cmd),
                            sp.cmd, sp.param[1], ret)
        ELSE IF f # 0
        THEN [SetFlag(p, s, at, f) EXCEPT !.i = at + 1]
        ELSE IF at + 1 >= argc(p)
        THEN Truncated(p, s, at, input, ret)
        ELSE SetArgOrReport(p, s2, at, at + 1, FindArgByWord(p.args, sp.cmd),
                            sp.cmd, Argv(p, at + 1), ret)

WordKeyToken(p, s, input, ret) ==
    LET at == s.i
        sp == splitCmd(SubstrFrom(input, Len(WordArgDelim)))
        f == FindFlagByWord(p.flags, sp.cmd)
        s2 == [s EXCEPT !.reads = Append(@, [idx |-> at + 1, role |-> "value"])]
    IN  IF sp.param # nullopt
        THEN SetArgOrReport(p, s, at, at, FindArgByWord(p.args, sp.cmd),
                            sp.cmd, sp.param[1], ret)
        ELSE IF f # 0
        THEN [SetFlag(p, s, at, f) EXCEPT !.i = at + 1]
        ELSE IF at + 1 >= argc(p)
        THEN Truncated(p, s, at, input, ret)
        ELSE SetArgOrReport(p, s2, at, at + 1, FindArgByWord(p.args, sp.cmd),
                            sp.cmd, Argv(p, at + 1), ret)

\* Faulty variant: only the first flag of a chain is set.
FlagChain_FirstOnly(p, s, at, input, k) ==
    IF k < Len(input) /\ FindByChar(p.flags, input[k + 1]) # 0
    THEN [s |-> SetFlag(p, s, at, FindByChar(p.flags, input[k + 1])),
          k |-> Len(input)]
    ELSE [s |-> s, k |-> k]

\* The flags named by input[k..] (0-based k as in the source), set in order;
\* stops at the first character that is no flag's char key.
RECURSIVE FlagChain(_, _, _, _, _)
FlagChain(p, s, at, input, k) ==
    IF k < Len(input) /\ FindByChar(p.flags, input[k + 1]) # 0
    THEN FlagChain(p, SetFlag(p, s, at, FindByChar(p.flags, input[k + 1])),
                   at, input, k + 1)
    ELSE [s |-> s, k |-> k]

\* Faulty variant: a chain that a non-flag character ends is not taken as a
\* chain; the token goes on to the handling of valued arguments.
CharKeyToken_StoppedChainIsArgument(p, s, input, ret) ==
    LET at == s.i
        chain == FlagChain(p, s, at, input, 1)
        isFlag == chain.k > 1 /\ chain.k = Len(input)
        sp == splitCmd(SubstrFrom(input, 1))
        last == IF sp.param # nullopt THEN at ELSE at + 1
        param == IF sp.param # nullopt THEN sp.param[1] ELSE Argv(p, at + 1)
        s2 == IF sp.param # nullopt THEN s
              ELSE [s EXCEPT !.reads = Append(@, [idx |-> at + 1, role |-> "value"])]
    IN  IF isFlag
        THEN IF chain.k < Len(input) /\ p.reportUnknown
             THEN ReportThen(p, chain.s, at, "UnrecognizedFlag",
                             <<input[chain.k + 1]>>, ret, at + 1)
             ELSE [chain.s EXCEPT !.i = at + 1]
        ELSE IF sp.param = nullopt /\ at + 1 >= argc(p)
        THEN Truncated(p, s, at, input, ret)
        ELSE IF Len(sp.cmd) # 1
        THEN ReportThen(p, s2, at, "UnexpectedCommandFormat", <<input>>, ret,
                        last + 1)
        ELSE SetArgOrReport(p, s2, at, last, FindByChar(p.args, sp.cmd[1]),
                            sp.cmd, param, ret)

\* Faulty variant: a key part of several characters is looked up by its
\* first character.
CharKeyToken_FirstCharOfKey(p, s, input, ret) ==
    LET at == s.i
        chain == FlagChain(p, s, at, input, 1)
        isFlag == chain.k > 1
        sp == splitCmd(SubstrFrom(input, 1))
        last == IF sp.param # nullopt THEN at ELSE at + 1
        param == IF sp.param # nullopt THEN sp.param[1] ELSE Argv(p, at + 1)
        s2 == IF sp.param # nullopt THEN s
              ELSE [s EXCEPT !.reads = Append(@, [idx |-> at + 1, role |-> "value"])]
    IN  IF isFlag
        THEN IF chain.k < Len(input) /\ p.reportUnknown
             THEN ReportThen(p, chain.s, at, "UnrecognizedFlag",
                             <<input[chain.k + 1]>>, ret, at + 1)
             ELSE [chain.s EXCEPT !.i = at + 1]
        ELSE IF sp.param = nullopt /\ at + 1 >= argc(p)
        THEN Truncated(p, s, at, input, ret)
        ELSE IF Len(sp.cmd) = 0
        THEN ReportThen(p, s2, at, "UnexpectedCommandFormat", <<input>>, ret,
                        last + 1)
        ELSE SetArgOrReport(p, s2, at, last, FindByChar(p.args, sp.cmd[1]),
                            sp.cmd, param, ret)

CharKeyToken(p, s, input, ret) ==
    LET at == s.i
        chain == FlagChain(p, s, at, input, 1)
        isFlag == chain.k > 1
        sp == splitCmd(SubstrFrom(input, 1))
        last == IF sp.param # nullopt THEN at ELSE at + 1
        param == IF sp.param # nullopt THEN sp.param[1] ELSE Argv(p, at + 1)
        s2 == IF sp.param # nullopt THEN s
              ELSE [s EXCEPT !.reads = Append(@, [idx |-> at + 1, role |-> "value"])]
    IN  IF isFlag
        THEN IF chain.k < Len(input) /\ p.reportUnknown
             THEN ReportThen(p, chain.s, at, "UnrecognizedFlag",
                             <<input[chain.k + 1]>>, ret, at + 1)
             ELSE [chain.s EXCEPT !.i = at + 1]
        ELSE IF sp.param = nullopt /\ at + 1 >= argc(p)
        THEN Truncated(p, s, at, input, ret)
        ELSE IF Len(sp.cmd) # 1
        THEN ReportThen(p, s2, at, "UnexpectedCommandFormat", <<input>>, ret,
                        last + 1)
        ELSE SetArgOrReport(p, s2, at, last, FindByChar(p.args, sp.cmd[1]),
                            sp.cmd, param, ret)

\* The body of the for loop for the token at s.i.
ParseToken(p, s0, ret) ==
    LET input == Argv(p, s0.i)
        s == [s0 EXCEPT !.reads = Append(@, [idx |-> s0.i, role |-> "key"])]
    IN  IF Len(input) > Len(WordArgDelim)
           /\ SubSeq(input, 1, Len(WordArgDelim)) = WordArgDelim
        THEN WordKeyToken(p, s, input, ret)
        ELSE IF Len(input) > 1 /\ input[1] = CharArgDelim
        THEN CharKeyToken(p, s, input, ret)
        ELSE ReportThen(p, s, s.i, "UnrecognizedCommandFormat", <<input>>, ret,
                        s.i + 1)

\* The loop condition fails: `return success`.
ParseEnd(s) == [s EXCEPT !.pc = "done", !.result = Some(s.success)]

\* A whole call, for a handler that answers every error with ret.
RECURSIVE RunParse(_, _, _)
RunParse(p, s, ret) ==
    IF s.pc = "done" THEN s
    ELSE IF s.i < argc(p) THEN RunParse(p, ParseToken(p, s, ret), ret)
    ELSE ParseEnd(s)

\* -------------------------------------------------------------- scenarios
\* The registrations a host program makes before it calls parse, after the
\* scenarios of the test suite.  A call names the variable, its static type
\* and the arguments of pushFlag / push.
Call(op, type, optional, ref, charKey, wordKey, description) ==
    [op |-> op, type |-> type, optional |-> optional, ref |-> ref,
     charKey |-> charKey, wordKey |-> wordKey, description |-> description,
     verifyUnique |-> TRUE]

\* An accepted call together with the value its variable held when it was made.
Registered(c, st) == [call |-> c, value |-> st[c.ref]]

\* "Taking flag arguments", with one integer argument beside the flags.
DispatchStore == [flagA |-> FALSE, flagB |-> FALSE, flagNotC |-> TRUE, intArg |-> 0]
DispatchScript ==
    << Call("pushFlag", "bool", FALSE, "flagA", Some("a"), Some(<<"f","A">>), <<"A">>),
       Call("pushFlag", "bool", FALSE, "flagB", Some("b"), Some(<<"f","B">>), <<"B">>),
       Call("pushFlag", "bool", FALSE, "flagNotC", Some("c"), Some(<<"f","C">>), <<"C">>),
       Call("push", "int8_t", FALSE, "intArg", Some("i"), Some(<<"i","n","t">>), <<"I">>) >>

\* "Giving overflow values for integer arguments".
NumStore == [smallIntArg |-> 1, smallUintArg |-> 1, int16 |-> 1, wideInt |-> 1,
             wideUint |-> 1]
NumScript ==
    << Call("push", "int8_t", FALSE, "smallIntArg", Some("s"), nullopt, <<>>),
       Call("push", "uint8_t", FALSE, "smallUintArg", Some("u"), nullopt, <<>>),
       Call("push", "int16_t", FALSE, "int16", Some("t"), nullopt, <<>>),
       Call("push", "int64_t", FALSE, "wideInt", Some("i"), nullopt, <<>>),
       Call("push", "uint64_t", FALSE, "wideUint", Some("w"), nullopt, <<>>) >>

\* "Taking bool arguments".
BoolStore == [boolA |-> FALSE, boolB |-> TRUE]
BoolScript ==
    << Call("push", "bool", FALSE, "boolA", Some("a"), Some(<<"b","A">>), <<"A">>),
       Call("push", "bool", FALSE, "boolB", Some("b"), Some(<<"b","B">>), <<"B">>) >>

\* "Taking a mixture of argument types", with a character and two of the
\* destinations of "Required arguments using std::optional" beside them.
MixedStore == [flag |-> FALSE, boolArg |-> FALSE, intArg |-> 0, viewArg |-> <<"d">>,
               charArg |-> "c", optInt |-> nullopt, optStr |-> nullopt]
MixedScript ==
    << Call("pushFlag", "bool", FALSE, "flag", Some("f"), Some(<<"f","l","a","g">>), <<"F">>),
       Call("push", "bool", FALSE, "boolArg", Some("b"), Some(<<"b","o","o","l">>), <<"B">>),
       Call("push", "int8_t", FALSE, "intArg", Some("i"), Some(<<"i","n","t">>), <<"I">>),
       Call("push", "string", FALSE, "viewArg", Some("v"), Some(<<"v","i","e","w">>), <<"V">>),
       Call("push", "char", FALSE, "charArg", Some("c"), nullopt, <<>>),
       Call("push", "int8_t", TRUE, "optInt", Some("o"), nullopt, <<"O">>),
       Call("push", "string", TRUE, "optStr", Some("r"), nullopt, <<>>) >>

\* A host program that waives the uniqueness check and registers two flags
\* and two integers under one pair of keys, the first integer before the
\* flags, and two strings under another pair.
Waived(c) == [c EXCEPT !.verifyUnique = FALSE]
ShadowStore == [int1 |-> 0, flag1 |-> FALSE, flag2 |-> FALSE, int2 |-> 0,
                str1 |-> <<"d">>, str2 |-> <<"d">>]
ShadowScript ==
    << Call("push", "int8_t", FALSE, "int1", Some("k"), Some(<<"k">>), <<>>),
       Waived(Call("pushFlag", "bool", FALSE, "flag1", Some("k"), Some(<<"k">>), <<>>)),
       Waived(Call("pushFlag", "bool", FALSE, "flag2", Some("k"), Some(<<"k">>), <<>>)),
       Waived(Call("push", "int8_t", FALSE, "int2", Some("k"), Some(<<"k">>), <<>>)),
       Call("push", "string", FALSE, "str1", Some("v"), Some(<<"v">>), <<>>),
       Waived(Call("push", "string", FALSE, "str2", Some("v"), Some(<<"v">>), <<>>)) >>

\* A host program that registers up to MaxEntries of its variables
\* under keys of its choice, valid or not, checked for uniqueness or not.
MaxEntries == 2
RegStore == [flagVar |-> FALSE, strVar |-> <<"d">>, optVar |-> nullopt]
RegCharKeys == { nullopt, Some("a"), Some("=") }
RegWordKeys == { nullopt, Some(<<>>), Some(<<"-","w">>), Some(<<"w">>),
                 Some(<<"w","=","x">>) }
RegVariables ==
    { Call("pushFlag", "bool", FALSE, "flagVar", nullopt, nullopt, <<"F">>),
      Call("push", "string", FALSE, "strVar", nullopt, nullopt, <<"S">>),
      Call("push", "int8_t", TRUE, "optVar", nullopt, nullopt, <<"O">>) }
RegCalls ==
    { [c EXCEPT !.charKey = ck, !.wordKey = wk, !.verifyUnique = vu] :
        c \in RegVariables, ck \in RegCharKeys, wk \in RegWordKeys,
        vu \in BOOLEAN }
\* One token, or a key token and its value, for each of these keys.
RegUnits ==
    { <<<<"-","a">>>>,
      <<<<"-","a","=","1">>>>,
      <<<<"-","a">>, <<"1">>>>,
      <<<<"-","-","w">>>>,
      <<<<"-","-","w","=","1">>>>,
      <<<<"-","-","w">>, <<"1">>>>,
      <<<<"-","-","w","=","x">>>>,
      <<<<"-","-","w","=","x","=","1">>>>,
      <<<<"-","-","w","=","x">>, <<"1">>>>,
      <<<<"-","=">>>>,
      <<<<"-","=","=","1">>>>,
      <<<<"-","=">>, <<"1">>>> }

ScenarioStore(name) ==
    CASE name = "num" -> NumStore
      [] name = "reg" -> RegStore
      [] name = "bool" -> BoolStore
      [] name \in {"mixed", "reparse"} -> MixedStore
      [] name = "shadow" -> ShadowStore
      [] OTHER -> DispatchStore
ScenarioScript(name) ==
    CASE name = "num" -> NumScript
      [] name = "reg" -> <<>>
      [] name = "bool" -> BoolScript
      [] name \in {"mixed", "reparse"} -> MixedScript
      [] name = "shadow" -> ShadowScript
      [] OTHER -> DispatchScript

\* How many times the host program of a scenario calls parse on its parser.
MaxParseCalls == 2
ParseCallsOf(name) == IF name = "reparse" THEN MaxParseCalls ELSE 1

\* The token vectors a scenario is parsed with; argv[0] is the empty string.
DispatchTokens ==
    { <<"-","a">>, <<"-","b","c">>, <<"-","-","f","A">>, <<"-","a","x">>,
      <<"-","i">>, <<"-","-","i","n","t">>, <<"-","i","=","5">>,
      <<"-","i","=","z">>, <<"-","x">>, <<"-","-","z","z","=","1">>,
      <<"7">>, <<"-","x","y","=","1">>, <<"-","-","f","A","=","1">>,
      <<"-","-","z","z">> }

\* Tokens for the same registry that end a flag chain early, have no form
\* parse knows, or hold a key part that is not one character.
EdgeTokens ==
    { <<"-","a">>, <<"-","a","x","b">>, <<"-","a","i","=","5">>, <<"-","b","i">>,
      <<"-","c","=","5">>, <<"f","A">>, <<>>, <<"-">>, <<"-","x","i">>,
      <<"-","i","a","=","5">>, <<"-","=","5">>, <<"-","i","=","5">> }

\* Tokens for the same registry that exercise every way a loop iteration
\* moves the cursor: a flag, a key that takes the next token, a value that
\* is rejected, an unknown key, a token of no form, a chain that is cut.
LoopTokens ==
    { <<"-","a">>, <<"-","i">>, <<"5">>, <<"-","i","=","z">>, <<"-","-","z","z">>,
      <<"-","a","x">> }

RECURSIVE Vectors(_, _)
Vectors(tokens, n) ==
    IF n = 0 THEN { <<>> }
    ELSE LET shorter == Vectors(tokens, n - 1) IN
         shorter \cup { Append(v, t) : v \in { w \in shorter : Len(w) = n - 1 },
                                      t \in tokens }

\* Short-form tokens made of the three flag characters, with at most
\* MaxChainChars characters in the whole vector.
MaxChainChars == 3
FlagChars == {"a", "b", "c"}
RECURSIVE ChainVectors(_)
ChainVectors(n) ==
    IF n = 0 THEN { <<>> }
    ELSE LET shorter == ChainVectors(n - 1) IN
         shorter
         \cup { Append(v, <<"-", c>>) : v \in shorter, c \in FlagChars }
         \cup { [v EXCEPT ![Len(v)] = Append(@, c)] :
                    v \in shorter \ { <<>> }, c \in FlagChars }
\* Numerals, and texts that are no numerals, for the integer destinations.
NumTokens ==
    { <<"0">>, <<"5">>, <<"-","5">>,
      <<"1","2","7">>, <<"1","2","8">>, <<"2","0","0">>,
      <<"-","1","2","8">>, <<"-","1","2","9">>, <<"-","2","0","0">>,
      <<"2","5","5">>, <<"2","5","6">>, <<"-","1">>,
      <<"0","x","1","0">>, <<"0","x","F","F">>, <<"0","x","1","0","0">>,
      <<"-","0","x","A","0">>, <<"-","0","x","8","0">>, <<"-","0","x","8","1">>,
      <<"0","X","7","f">>, <<"3","3","0","0","0">>, <<"-","3","3","0","0","0">>,
      <<"0","x","8","0","0","0">>, <<"-","0","x","8","0","0","1">>, <<"9","9","9","9","9","9","9","9">>,
      <<"-","9","9","9","9","9","9","9","9">>, <<"0","x","F","F","F","F","F","F","F">>, <<"-","0","x","F","F","F","F","F","F","F">>,
      <<"a">>, <<>>, <<"-">>,
      <<"0","x">>, <<"-","0","x">>, <<"1","2","a","b","c">>,
      <<"0","x","-","5">> }

\* Every upper/lower-case spelling of a word.
RECURSIVE CaseVariants(_)
CaseVariants(w) ==
    IF w = <<>> THEN { <<>> }
    ELSE LET c == w[Len(w)]
             up == IF \E k \in 1..Len(LowerChars) : LowerChars[k] = c
                   THEN UpperChars[CHOOSE k \in 1..Len(LowerChars) : LowerChars[k] = c]
                   ELSE c
         IN  { Append(v, x) : v \in CaseVariants(SubSeq(w, 1, Len(w) - 1)),
                              x \in {c, up} }
Keywords == { TrueStrings[k] : k \in 1..Len(TrueStrings) }
            \cup { FalseStrings[k] : k \in 1..Len(FalseStrings) }
KeywordSpellings == UNION { CaseVariants(w) : w \in Keywords }
NonKeywords ==
    { <<>>, <<"t","r">>, <<"t","r","u","e","e">>, <<"t","t","r","u","e">>,
      <<"y","e","s","s">>, <<"2">>, <<"1","0">>, <<"o","n">>,
      <<"0","0">>, <<"f","a","l","s">>, <<"y","e">>, <<"-","1">>,
      <<"t","t">> }
BoolTokens == KeywordSpellings \cup NonKeywords

\* One key with one value, attached ("-k=v") or detached ("-k", "v").
KeyValueVectors(keys, values) ==
    { <<<<>>, <<"-", k>>, v>> : k \in keys, v \in values }
    \cup { <<<<>>, <<"-", k, "=">> \o v>> : k \in keys, v \in values }

\* A unit is a key token with its value: attached, detached, empty or
\* rejected by the coercion; "-x" is no registered key.
MixedUnits ==
    { <<<<"-","f">>>>,
      <<<<"-","-","f","l","a","g">>>>,
      <<<<"-","-","b","o","o","l","=","t","r","u","e">>>>,
      <<<<"-","b">>, <<"y","e","s">>>>,
      <<<<"-","b","=","x">>>>,
      <<<<"-","b","=">>>>,
      <<<<"-","i","=","5">>>>,
      <<<<"-","i">>, <<"-","5">>>>,
      <<<<"-","i","=","z">>>>,
      <<<<"-","-","i","n","t","=">>>>,
      <<<<"-","i">>, <<"-","f">>>>,
      <<<<"-","v","=","s">>>>,
      <<<<"-","v">>, <<"-","f">>>>,
      <<<<"-","v">>, <<"-","-","i","n","t">>>>,
      <<<<"-","-","v","i","e","w","=">>>>,
      <<<<"-","c","=","&">>>>,
      <<<<"-","c","=","a","b">>>>,
      <<<<"-","c","=">>>>,
      <<<<"-","o","=","5">>>>,
      <<<<"-","o">>, <<"7">>>>,
      <<<<"-","o","=","z">>>>,
      <<<<"-","o","=">>>>,
      <<<<"-","r","=","s">>>>,
      <<<<"-","r","=">>>>,
      <<<<"-","x">>>> }

\* Units that address the shared keys of the shadow scenario.
ShadowUnits ==
    { <<<<"-","k">>>>,
      <<<<"-","-","k">>>>,
      <<<<"-","k","=","1">>>>,
      <<<<"-","-","k","=","1">>>>,
      <<<<"-","-","k">>, <<"1">>>>,
      <<<<"-","v","=","s">>>>,
      <<<<"-","v">>, <<"s">>>>,
      <<<<"-","-","v","=","s">>>>,
      <<<<"-","-","v">>, <<"s">>>>,
      <<<<"-","k","v","=","s">>>>,
      <<<<"-","v","k","=","s">>>> }

\* The vectors made of at most n units.
RECURSIVE UnitVectors(_, _)
UnitVectors(units, n) ==
    IF n = 0 THEN { <<>> }
    ELSE LET shorter == UnitVectors(units, n - 1) IN
         shorter \cup { v \o u : v \in shorter, u \in units }
MaxUnits == 2

ArgvChoices(name) ==
    CASE name = "mixed" -> { <<<<>>>> \o v : v \in UnitVectors(MixedUnits, MaxUnits) }
      [] name = "reparse" -> { <<<<>>>> \o v : v \in UnitVectors(MixedUnits, 1) }
      [] name = "shadow" -> { <<<<>>>> \o v : v \in UnitVectors(ShadowUnits, MaxUnits) }
      [] name = "reg" -> { <<<<>>>> \o v : v \in UnitVectors(RegUnits, 1) }
      [] name = "num" -> KeyValueVectors({"s", "u", "t", "i", "w"}, NumTokens)
      [] name = "bool" -> KeyValueVectors({"a", "b"}, BoolTokens)
      [] name = "chain" -> { <<<<>>>> \o v : v \in ChainVectors(MaxChainChars) }
      [] name = "edge" -> { <<<<>>>> \o v : v \in Vectors(EdgeTokens, MaxArgs) }
      [] name = "loop" -> { <<<<>>>> \o v : v \in Vectors(LoopTokens, MaxArgs) }
      [] OTHER -> { <<<<>>>> \o v : v \in Vectors(DispatchTokens, MaxArgs) }

\* ---------------------------------------------------------- state machine
\* The parser after construction and the registrations of the scenario.
InitScenario(name) ==
    LET reg == Register(EmptyRegistry, ScenarioStore(name), ScenarioScript(name)) IN
    /\ scenario = name
    /\ flags_ = reg.flags
    /\ args_ = reg.args
    /\ store = ScenarioStore(name)
    /\ invoke_name_ = <<"?">>
    /\ pc = "idle"
    /\ argv = <<>>
    /\ reportUnknown = FALSE
    /\ voidHandler = FALSE
    /\ i = 0
    /\ success = TRUE
    /\ result = nullopt
    /\ calls = <<>>
    /\ reads = <<>>
    /\ sets = <<>>
    /\ parseCalls = 0
    /\ entryStore = ScenarioStore(name)
    /\ pushes = [k \in 1..Len(ScenarioScript(name)) |->
                    Registered(ScenarioScript(name)[k], ScenarioStore(name))]
    /\ helpText = nullopt
    /\ aborted = nullopt

Init == InitScenario("dispatch")
InitChain == InitScenario("chain")
InitEdge == InitScenario("edge")
InitLoop == InitScenario("loop")
InitNum == InitScenario("num")
InitBool == InitScenario("bool")
InitMixed == InitScenario("mixed")
InitReparse == InitScenario("reparse")
InitReg == InitScenario("reg")
InitShadow == InitScenario("shadow")

\* Faulty variant: parse starts by putting every variable back to the value
\* it had at registration.
ParseEntry_ResetsStore(st) ==
    [pc |-> "parsing", i |-> 1, success |-> TRUE, result |-> nullopt,
     store |-> ScenarioStore(scenario), calls |-> <<>>, reads |-> <<>>,
     sets |-> <<>>]

\* The state of a call on entry to the loop.
ParseEntry(st) ==
    [pc |-> "parsing", i |-> 1, success |-> TRUE, result |-> nullopt,
     store |-> st, calls |-> <<>>, reads |-> <<>>, sets |-> <<>>]

\* The description of the current call and its progress, as records.
CurCall == [flags |-> flags_, args |-> args_, argv |-> argv,
            reportUnknown |-> reportUnknown, voidHandler |-> voidHandler]
CurState == [pc |-> pc, i |-> i, success |-> success, result |-> result,
             store |-> store, calls |-> calls, reads |-> reads, sets |-> sets]
Becomes(s) ==
    /\ pc' = s.pc
    /\ i' = s.i
    /\ success' = s.success
    /\ result' = s.result
    /\ store' = s.store
    /\ calls' = s.calls
    /\ reads' = s.reads
    /\ sets' = s.sets

\* parse<ErrorHandler, UnknownArgPolicy>(argc, argv, errorHandler) is called:
\* lines 154-155 and the loop initialisation.
parse ==
    /\ \/ pc = "idle" /\ helpText = nullopt
       \/ pc = "done" /\ parseCalls < ParseCallsOf(scenario)
    /\ parseCalls' = parseCalls + 1
    /\ entryStore' = store
    /\ \E v \in ArgvChoices(scenario), ru \in BOOLEAN, vh \in BOOLEAN :
        /\ argv' = v
        /\ reportUnknown' = ru
        /\ voidHandler' = vh
        /\ invoke_name_' = v[1]
        /\ Becomes(ParseEntry(store))
    /\ UNCHANGED <<flags_, args_, scenario, pushes, helpText, aborted>>

\* One iteration of the loop; the handler, if called and not void, answers
\* Continue or Terminate.
ParseStep ==
    /\ pc = "parsing"
    /\ i < Len(argv)
    /\ \E ret \in {"Continue", "Terminate"} :
          Becomes(ParseToken(CurCall, CurState, ret))
    /\ UNCHANGED <<flags_, args_, scenario, invoke_name_, argv, reportUnknown,
                   voidHandler, parseCalls, entryStore, pushes, helpText, aborted>>

\* The loop is over: return success.
ParseReturn ==
    /\ pc = "parsing"
    /\ i >= Len(argv)
    /\ Becomes(ParseEnd(CurState))
    /\ UNCHANGED <<flags_, args_, scenario, invoke_name_, argv, reportUnknown,
                   voidHandler, parseCalls, entryStore, pushes, helpText, aborted>>

Next == parse \/ ParseStep \/ ParseReturn

\* The host program calls pushFlag / push before it calls parse.  The
\* assertions of checkValid are compiled in: a call that fails one ends the
\* program.
CurRegistry == [flags |-> flags_, args |-> args_]
Unregistered(ref) ==
    /\ \A k \in 1..Len(flags_) : flags_[k].ref # ref
    /\ \A k \in 1..Len(args_) : args_[k].ref # ref
PushFlagCall ==
    /\ scenario = "reg" /\ pc = "idle" /\ helpText = nullopt
    /\ Len(pushes) < MaxEntries
    /\ \E c \in RegCalls :
        /\ c.op = "pushFlag" /\ Unregistered(c.ref)
        /\ IF checkValid(flags_, args_, c.charKey, c.wordKey, c.verifyUnique)
           THEN /\ flags_' = pushFlag(CurRegistry, store, c).flags
                /\ pushes' = Append(pushes, Registered(c, store))
                /\ UNCHANGED <<pc, aborted>>
           ELSE /\ pc' = "aborted"
                /\ aborted' = Some(c)
                /\ UNCHANGED <<flags_, pushes>>
    /\ UNCHANGED <<args_, invoke_name_, store, scenario, argv, reportUnknown,
                   voidHandler, i, success, result, calls, reads, sets,
                   parseCalls, entryStore, helpText>>
PushCall ==
    /\ scenario = "reg" /\ pc = "idle" /\ helpText = nullopt
    /\ Len(pushes) < MaxEntries
    /\ \E c \in RegCalls :
        /\ c.op = "push" /\ Unregistered(c.ref)
        /\ IF checkValid(flags_, args_, c.charKey, c.wordKey, c.verifyUnique)
           THEN /\ args_' = push(CurRegistry, store, c).args
                /\ pushes' = Append(pushes, Registered(c, store))
                /\ UNCHANGED <<pc, aborted>>
           ELSE /\ pc' = "aborted"
                /\ aborted' = Some(c)
                /\ UNCHANGED <<args_, pushes>>
    /\ UNCHANGED <<flags_, invoke_name_, store, scenario, argv, reportUnknown,
                   voidHandler, i, success, result, calls, reads, sets,
                   parseCalls, entryStore, helpText>>

\* The host program asks for the help text instead of calling parse, with
\* or without a description of the program.
GetHelpTextCall ==
    /\ scenario = "reg" /\ pc = "idle" /\ helpText = nullopt
    /\ \E programDescription \in { <<>>, <<"P">> } :
          helpText' = Some(getHelpText(flags_, args_, programDescription))
    /\ UNCHANGED <<flags_, args_, invoke_name_, store, scenario, pc, argv,
                   reportUnknown, voidHandler, i, success, result, calls, reads,
                   sets, parseCalls, entryStore, pushes, aborted>>

NextReg == PushFlagCall \/ PushCall \/ GetHelpTextCall \/ Next

Spec == Init /\ [][Next]_vars
SpecChain == InitChain /\ [][Next]_vars
SpecEdge == InitEdge /\ [][Next]_vars
\* parse is straight-line code inside one for loop and the handler returns:
\* an iteration that can run does run, and so does the return.  The second
\* conjunct is WF_vars(ParseStep) written out, with the loop condition in the
\* place of ENABLED <<ParseStep>>_vars: ParseToken is defined for every token
\* and every iteration adds to the read log.
LoopCondition == pc = "parsing" /\ i < Len(argv)
SpecLoop ==
    /\ InitLoop /\ [][Next]_vars
    /\ WF_vars(ParseReturn)
    /\ ([]<>~LoopCondition \/ []<><<ParseStep>>_vars)
SpecNum == InitNum /\ [][Next]_vars
SpecBool == InitBool /\ [][Next]_vars
SpecMixed == InitMixed /\ [][Next]_vars
SpecReparse == InitReparse /\ [][Next]_vars
SpecShadow == InitShadow /\ [][Next]_vars
SpecReg == InitReg /\ [][NextReg]_vars

\* ----------------------------------------------------- vocabulary of claims
\* The forms of a token as the specification describes them.
IsLongForm(tok) == Len(tok) > 2 /\ tok[1] = "-" /\ tok[2] = "-"
IsShortForm(tok) == ~IsLongForm(tok) /\ Len(tok) > 1 /\ tok[1] = "-"
HasInlineValue(tok) == \E k \in 1..Len(tok) : tok[k] = "="
IsFlagChar(c) == \E k \in 1..Len(flags_) : flags_[k].base.charKey = <<c>>
IsFlagWord(w) == \E k \in 1..Len(flags_) : flags_[k].base.wordKey = <<w>>
IsArgChar(c) == \E k \in 1..Len(args_) : args_[k].base.charKey = <<c>>
IsArgWord(w) == \E k \in 1..Len(args_) : args_[k].base.wordKey = <<w>>

\* tok names the flag f: f's word key as a long-form token without inline
\* value, or f's char key inside the leading run of flag characters of a
\* short-form token.
NamesFlag(tok, f) ==
    \/ /\ IsLongForm(tok)
       /\ ~HasInlineValue(tok)
       /\ f.base.wordKey = <<SubSeq(tok, 3, Len(tok))>>
    \/ /\ IsShortForm(tok)
       /\ \E k \in 2..Len(tok) :
            /\ f.base.charKey = <<tok[k]>>
            /\ \A j \in 2..k : IsFlagChar(tok[j])

\* The token at index k of the source's argv, and the indices parse has read
\* as the token of a loop iteration.
Token(k) == argv[k + 1]
LastIndex == Len(argv) - 1
KeyReads == { reads[k].idx : k \in { j \in 1..Len(reads) : reads[j].role = "key" } }
CallsAt(k) == { m \in 1..Len(calls) : calls[m].at = k }

\* ----------------------------------------------------------------- claims
\* C1 as stated: after a parse call on a freshly registered parser a flag
\* with default d holds !d if some token of the vector names it, and d if
\* none does.
C1_AnyTokenSetsFlag ==
    pc = "done" =>
        \A k \in 1..Len(flags_) :
            store[flags_[k].ref] =
                IF \E t \in 1..LastIndex : NamesFlag(Token(t), flags_[k])
                THEN ~flags_[k].defaultVal
                ELSE flags_[k].defaultVal

\* C1 (amended): after a parse call on a freshly registered parser a flag
\* with default d holds !d if some token that parse read as the token of a
\* loop iteration names it, and d otherwise; a token taken as the detached
\* value of the token before it, or lying after the point where parse
\* returned, sets nothing.
C1_DispatchedTokenSetsFlag ==
    pc = "done" =>
        \A k \in 1..Len(flags_) :
            store[flags_[k].ref] =
                IF \E t \in KeyReads : NamesFlag(Token(t), flags_[k])
                THEN ~flags_[k].defaultVal
                ELSE flags_[k].defaultVal

\* A chain set b and the default-true flag c, and a is untouched.
C1_Witness ==
    /\ pc = "done"
    /\ result = Some(TRUE)
    /\ \E t \in KeyReads : Token(t) = <<"-","b","c">>
    /\ store.flagB = TRUE /\ store.flagNotC = FALSE /\ store.flagA = FALSE

\* The value of a numeral, by place value, without any width.
DecChars == {"0","1","2","3","4","5","6","7","8","9"}
HexChars == DecChars \cup {"a","b","c","d","e","f","A","B","C","D","E","F"}
RECURSIVE PlaceValue(_, _)
PlaceValue(digits, base) ==
    IF digits = <<>> THEN 0
    ELSE PlaceValue(SubSeq(digits, 1, Len(digits) - 1), base) * base
         + DigitVal(digits[Len(digits)])
IsNegative(v) == Len(v) >= 1 /\ v[1] = "-"
Unsigned(v) == IF IsNegative(v) THEN Tail(v) ELSE v
IsDecNumeral(v) ==
    LET u == Unsigned(v) IN u # <<>> /\ \A k \in 1..Len(u) : u[k] \in DecChars
IsHexNumeral(v) ==
    LET u == Unsigned(v) IN
    /\ Len(u) > 2
    /\ u[1] = "0" /\ u[2] \in {"x", "X"}
    /\ \A k \in 3..Len(u) : u[k] \in HexChars
IsNumeral(v) == IsDecNumeral(v) \/ IsHexNumeral(v)
NumeralValue(v) ==
    LET u == Unsigned(v)
        mag == IF IsHexNumeral(v) THEN PlaceValue(SubSeq(u, 3, Len(u)), 16)
               ELSE PlaceValue(u, 10)
    IN  IF IsNegative(v) THEN 0 - mag ELSE mag

\* The range of the accumulator an integer destination is parsed into.
FitsAccumulator(type, v) ==
    IF IsUnsignedType(type)
    THEN ~IsNegative(v) /\ NumeralValue(v) <= Pow2(AccBits) - 1
    ELSE /\ NumeralValue(v) <= Pow2(AccBits - 1) - 1
         /\ NumeralValue(v) >= 0 - Pow2(AccBits - 1)

\* The set calls parse made on integer destinations.
IntegerSets ==
    { m \in 1..Len(sets) :
        sets[m].family = "arg" /\ args_[sets[m].entry].kind = "Numeric"
        /\ args_[sets[m].entry].type \in IntegerTypes }
TypeOfSet(m) == args_[sets[m].entry].type

\* C2: a decimal or hex token whose value fits the accumulator but lies
\* outside the destination's range (any signed destination; an unsigned one
\* when the token is above its maximum) is stored as the nearest bound, the
\* coercion succeeds, the handler is not invoked and parse returns true.
C2_ClampToNearestBound ==
    \A m \in IntegerSets :
        LET type == TypeOfSet(m)
            v == sets[m].input
            val == NumeralValue(v)
        IN  ( /\ IsNumeral(v)
              /\ FitsAccumulator(type, v)
              /\ \/ val > NumericMax(type)
                 \/ ~IsUnsignedType(type) /\ val < NumericLowest(type) )
            => /\ sets[m].ok
               /\ sets[m].stored = IF val > NumericMax(type) THEN NumericMax(type)
                                   ELSE NumericLowest(type)
               /\ CallsAt(sets[m].at) = {}
               /\ (pc = "done" /\ Cardinality(KeyReads) = 1) => result = Some(TRUE)

\* "-s" "-200" left -128 in the int8_t and "-u" "0x100" 255 in the uint8_t.
C2_Witness ==
    /\ pc = "done"
    /\ result = Some(TRUE)
    /\ \/ argv = << <<>>, <<"-","s">>, <<"-","2","0","0">> >> /\ store.smallIntArg = -128
       \/ argv = << <<>>, <<"-","u","=","0","x","1","0","0">> >> /\ store.smallUintArg = 255

\* C3: a token whose value overflows the accumulator itself still succeeds
\* and stores the destination's maximum when the token is positive and its
\* lowest value when the token is negative; no error is reported.
C3_AccumulatorOverflowSaturates ==
    \A m \in IntegerSets :
        LET type == TypeOfSet(m)
            v == sets[m].input
        IN  ( /\ IsNumeral(v)
              /\ ~FitsAccumulator(type, v)
              /\ IsUnsignedType(type) => ~IsNegative(v) )
            => /\ sets[m].ok
               /\ sets[m].stored = IF IsNegative(v) THEN NumericLowest(type)
                                   ELSE NumericMax(type)
               /\ CallsAt(sets[m].at) = {}

\* The set calls parse made on bool destinations.
BoolSets ==
    { m \in 1..Len(sets) :
        sets[m].family = "arg" /\ args_[sets[m].entry].kind = "Bool" }
TrueSpellings == UNION { CaseVariants(TrueStrings[k]) : k \in 1..Len(TrueStrings) }
FalseSpellings == UNION { CaseVariants(FalseStrings[k]) : k \in 1..Len(FalseStrings) }

\* C4: for a boolean destination every spelling of true, t, yes, y, 1 stores
\* true, every spelling of false, f, no, n, 0 stores false, and every other
\* token fails and leaves the variable as it was.
C4_BoolKeywords ==
    \A m \in BoolSets :
        LET v == sets[m].input IN
        /\ v \in TrueSpellings => sets[m].ok /\ sets[m].stored = TRUE
        /\ v \in FalseSpellings => sets[m].ok /\ sets[m].stored = FALSE
        /\ v \notin TrueSpellings \cup FalseSpellings =>
              ~sets[m].ok /\ sets[m].stored = sets[m].before

\* "-a=tRuE" made the false variable true, "-b" "NO" the true one false, and
\* "-b=truee" failed and left the true one true.
C4_Witness ==
    /\ pc = "done"
    /\ \/ argv = << <<>>, <<"-","a","=","t","R","u","E">> >> /\ store.boolA = TRUE
       \/ argv = << <<>>, <<"-","b">>, <<"N","O">> >> /\ store.boolB = FALSE
       \/ /\ argv = << <<>>, <<"-","b","=","t","r","u","e","e">> >>
          /\ store.boolB = TRUE /\ result = Some(FALSE)

\* C5: parse returns false if and only if the handler was invoked at least
\* once during the call.
C5_FalseIffHandlerInvoked ==
    pc = "done" =>
        /\ result \in {Some(TRUE), Some(FALSE)}
        /\ result = Some(FALSE) <=> calls # <<>>

\* Two errors were both answered with Continue, the loop ran to its end and
\* parse returned false.
C5_Witness ==
    /\ pc = "done"
    /\ i >= Len(argv)
    /\ Len(calls) = 2
    /\ \A m \in 1..Len(calls) : calls[m].ret = "Continue"
    /\ result = Some(FALSE)

IsMalformed(tok) == ~IsLongForm(tok) /\ ~IsShortForm(tok)

\* C6: every error condition met during a parse is delivered to the handler
\* exactly once, and the invocations are in strictly increasing order of the
\* index of the token that caused them.
C6_EachErrorOnceInTokenOrder ==
    /\ \A m, n \in 1..Len(calls) : m < n => calls[m].at < calls[n].at
    /\ \A m \in 1..Len(calls) : calls[m].at \in KeyReads
    /\ \A m \in 1..Len(sets) :
          ~sets[m].ok =>
              /\ Cardinality(CallsAt(sets[m].at)) = 1
              /\ \A c \in CallsAt(sets[m].at) :
                    calls[c].kind = "UnexpectedFormatForArgument"
    /\ \A k \in KeyReads :
          IsMalformed(Token(k)) =>
              /\ Cardinality(CallsAt(k)) = 1
              /\ \A c \in CallsAt(k) : calls[c].kind = "UnrecognizedCommandFormat"

\* A failed coercion at token 1 (value in token 2) and a malformed token 3.
C6_Witness ==
    /\ Len(calls) = 2
    /\ calls[1].kind = "UnexpectedFormatForArgument" /\ calls[1].at = 1
    /\ calls[2].kind = "UnrecognizedCommandFormat" /\ calls[2].at = 3

\* The key text of a long- or short-form token: what lies between the
\* delimiter and the first '=' (or the end).
KeyText(tok) ==
    LET body == IF IsLongForm(tok) THEN SubSeq(tok, 3, Len(tok)) ELSE Tail(tok)
        eqs == { k \in 1..Len(body) : body[k] = "=" }
    IN  IF eqs = {} THEN body
        ELSE SubSeq(body, 1, (CHOOSE k \in eqs : \A j \in eqs : k <= j) - 1)

\* A key token that carries no inline value and is not a flag.
NeedsDetachedValue(tok) ==
    /\ ~HasInlineValue(tok)
    /\ \/ IsLongForm(tok) /\ ~IsFlagWord(KeyText(tok))
       \/ IsShortForm(tok) /\ ~IsFlagChar(tok[2])

\* C7: when a key token without inline value that is not a flag is the last
\* token, the handler is invoked exactly once for it, with the 'Unexpected
\* termination' error, and parse returns false at once, whatever the handler
\* answers, under either policy, registered key or not.
C7_TruncatedIsFatal ==
    \A k \in KeyReads :
        (k = LastIndex /\ NeedsDetachedValue(Token(k))) =>
            /\ pc = "done"
            /\ result = Some(FALSE)
            /\ Cardinality(CallsAt(k)) = 1
            /\ calls[Len(calls)].at = k
            /\ calls[Len(calls)].kind = "UnexpectedTermination"

\* The unregistered "--zz" came last, the handler answered Continue, and
\* parse has returned false all the same.
C7_Witness ==
    /\ pc = "done"
    /\ result = Some(FALSE)
    /\ Token(LastIndex) = <<"-","-","z","z">>
    /\ LastIndex \in KeyReads
    /\ calls[Len(calls)].kind = "UnexpectedTermination"
    /\ calls[Len(calls)].ret = "Continue"

\* C8: after an error other than truncated input, scanning goes on with the
\* next unconsumed token iff the handler returns nothing or Continue; on
\* Terminate parse returns false at once: no later token is read, no later
\* variable is written and the handler is not invoked again.
C8_ContinueTerminateProtocol ==
    /\ \A m \in 1..Len(calls) :
          /\ voidHandler => calls[m].ret = "void"
          /\ ~voidHandler => calls[m].ret \in {"Continue", "Terminate"}
    /\ (pc = "parsing" /\ reads # <<>>) => i = reads[Len(reads)].idx + 1
    /\ \A m \in 1..Len(calls) :
          calls[m].kind # "UnexpectedTermination" =>
              /\ calls[m].ret = "Terminate" =>
                    /\ pc = "done"
                    /\ result = Some(FALSE)
                    /\ m = Len(calls)
                    /\ \A r \in 1..Len(reads) :
                          /\ reads[r].idx <= calls[m].at + 1
                          /\ reads[r].role = "key" => reads[r].idx <= calls[m].at
                    /\ \A t \in 1..Len(sets) : sets[t].at <= calls[m].at
              /\ (calls[m].ret # "Terminate" /\ m = Len(calls) /\ pc = "done") =>
                    i >= Len(argv)

\* The handler answered Terminate at the first of three tokens: parse has
\* returned false and tokens 2 and 3 were never read.
C8_Witness ==
    /\ pc = "done"
    /\ LastIndex = 3
    /\ Len(calls) = 1
    /\ calls[1].ret = "Terminate" /\ calls[1].at = 1
    /\ calls[1].kind = "UnrecognizedCommandFormat"
    /\ Len(reads) = 1

\* A key token that resolves to no registered entry and whose value is
\* available, inline or in the next token.
UnknownWithValue(k) ==
    LET tok == Token(k) IN
    /\ HasInlineValue(tok) \/ (NeedsDetachedValue(tok) /\ k < LastIndex)
    /\ \/ IsLongForm(tok) /\ ~IsArgWord(KeyText(tok))
       \/ /\ IsShortForm(tok) /\ ~IsFlagChar(tok[2])
          /\ Len(KeyText(tok)) = 1 /\ ~IsArgChar(KeyText(tok)[1])
\* A flag chain that a non-flag character ends.
ChainEndsAtNonFlag(tok) ==
    /\ IsShortForm(tok)
    /\ IsFlagChar(tok[2])
    /\ \E j \in 3..Len(tok) : ~IsFlagChar(tok[j])

\* C9: for an unregistered key with its value available, and for a non-flag
\* character that ends a flag chain, the ignore policy never invokes the
\* handler; the report policy invokes it exactly once, with 'Unrecognized
\* command' and 'Unrecognized flag' respectively.
C9_UnknownKeyPolicy ==
    \A k \in KeyReads :
        /\ UnknownWithValue(k) =>
              IF reportUnknown
              THEN /\ Cardinality(CallsAt(k)) = 1
                   /\ \A c \in CallsAt(k) : calls[c].kind = "UnrecognizedCommand"
              ELSE CallsAt(k) = {}
        /\ ChainEndsAtNonFlag(Token(k)) =>
              IF reportUnknown
              THEN /\ Cardinality(CallsAt(k)) = 1
                   /\ \A c \in CallsAt(k) : calls[c].kind = "UnrecognizedFlag"
              ELSE CallsAt(k) = {}

\* Under the ignore policy an unregistered key and a broken chain went by
\* without a handler call, and parse returned true.
C9_Witness ==
    /\ pc = "done"
    /\ ~reportUnknown
    /\ result = Some(TRUE)
    /\ \E k \in KeyReads : UnknownWithValue(k)
    /\ \E k \in KeyReads : ChainEndsAtNonFlag(Token(k))

\* The vector consists of short-form tokens that together hold each of
\* a, b, c exactly once.
IsArrangementOfABC ==
    /\ LastIndex >= 1
    /\ \A k \in 1..LastIndex :
          /\ IsShortForm(Token(k))
          /\ \A j \in 2..Len(Token(k)) : Token(k)[j] \in FlagChars
    /\ \A c \in FlagChars :
          Cardinality({ <<k, j>> \in (1..LastIndex) \X (2..4) :
                          j <= Len(Token(k)) /\ Token(k)[j] = c }) = 1
SeparateABC == << <<>>, <<"-","a">>, <<"-","b">>, <<"-","c">> >>

\* C10: parsing '-abc', any permutation of its characters or any split of
\* them into several short-form tokens ends with the same variables and the
\* same result as parsing '-a', '-b', '-c'.
C10_ChainEqualsSeparateFlags ==
    (pc = "done" /\ IsArrangementOfABC) =>
        LET sep == RunParse([CurCall EXCEPT !.argv = SeparateABC],
                            ParseEntry(ScenarioStore(scenario)), "Continue")
        IN  /\ store = sep.store
            /\ result = sep.result

\* The single token '-cab' set all three flags.
C10_Witness ==
    /\ pc = "done"
    /\ argv = << <<>>, <<"-","c","a","b">> >>
    /\ result = Some(TRUE)
    /\ store.flagA = TRUE /\ store.flagB = TRUE /\ store.flagNotC = FALSE

\* The tokens one loop iteration read: the key token at k and, when the
\* iteration took the next token as its parameter, that token too.
TookValue(k) == \E m \in 1..Len(reads) : reads[m] = [idx |-> k + 1, role |-> "value"]
UnitEnd(k) == IF TookValue(k) THEN k + 1 ELSE k
UnitOf(k) == SubSeq(argv, k + 1, UnitEnd(k) + 1)
SetsAt(k) == { m \in 1..Len(sets) : sets[m].at = k }
\* The vector without the tokens at the indices from..to.
Without(v, from, to) == SubSeq(v, 1, from) \o SubSeq(v, to + 2, Len(v))

\* The token at k is a valid flag token or a valid key with its value: it
\* resolved to an entry, every set it caused succeeded, nothing was reported.
ValidUnitAt(k) ==
    /\ k \in KeyReads
    /\ SetsAt(k) # {}
    /\ \A m \in SetsAt(k) : sets[m].ok
    /\ CallsAt(k) = {}
\* The unit at k is followed at once by the same unit again.
RepeatedAt(k) ==
    /\ ValidUnitAt(k)
    /\ ValidUnitAt(UnitEnd(k) + 1)
    /\ UnitOf(UnitEnd(k) + 1) = UnitOf(k)

\* C11: a vector that holds a valid flag token, or a valid key with its
\* value, twice in a row ends the parse call with the same variables and the
\* same result, true with no handler invocation, as the vector that holds it
\* once.
C11_TwiceEqualsOnce ==
    (pc = "done" /\ calls = <<>>) =>
        \A k \in KeyReads :
            RepeatedAt(k) =>
                LET j == UnitEnd(k) + 1
                    once == RunParse([CurCall EXCEPT
                                         !.argv = Without(argv, j, UnitEnd(j))],
                                     ParseEntry(entryStore), "Continue")
                IN  /\ once.store = store
                    /\ once.result = result
                    /\ result = Some(TRUE)
                    /\ once.calls = <<>>

\* '-i' '-5' '-i' '-5' was parsed: both occurrences stored -5.
C11_Witness ==
    /\ pc = "done"
    /\ argv = << <<>>, <<"-","i">>, <<"-","5">>, <<"-","i">>, <<"-","5">> >>
    /\ RepeatedAt(1)
    /\ store.intArg = -5
    /\ result = Some(TRUE)

\* The set calls of the current parse call on the valued entry a, in order.
SetsOn(a) == { m \in 1..Len(sets) : sets[m].family = "arg" /\ sets[m].entry = a }
OkSetsOn(a) == { m \in SetsOn(a) : sets[m].ok }
Last(S) == CHOOSE m \in S : \A n \in S : n <= m
\* What a successful coercion of the text makes of the entry's variable.
Coerced(a, text) == Arg_set(args_[a], entryStore, text).store[args_[a].ref]

\* C12: when a valued key occurs several times, its variable holds the value
\* of the last occurrence whose coercion succeeded (its value on entry if
\* none did); an occurrence that succeeds causes no error, however often the
\* key occurred before, and one that fails leaves the variable as the
\* earlier occurrences left it.
C12_LastWriteWins ==
    \A a \in 1..Len(args_) :
        /\ store[args_[a].ref] =
              IF OkSetsOn(a) = {} THEN entryStore[args_[a].ref]
              ELSE Coerced(a, sets[Last(OkSetsOn(a))].input)
        /\ \A m \in SetsOn(a) :
              /\ sets[m].ok => CallsAt(sets[m].at) = {}
              /\ ~sets[m].ok => sets[m].stored = sets[m].before

\* '-i=5' then '-i=z': the second occurrence was rejected and 5 stayed.
C12_Witness ==
    /\ pc = "done"
    /\ \E a \in 1..Len(args_) :
          /\ args_[a].ref = "intArg"
          /\ Cardinality(SetsOn(a)) = 2
          /\ Cardinality(OkSetsOn(a)) = 1
          /\ ~sets[Last(SetsOn(a))].ok
    /\ store.intArg = 5
    /\ Len(calls) = 1

\* The valued entry a key token resolves to, 0 if it resolves to none: the
\* one with the word key of a long-form token, or with the char key of a
\* short-form token whose key is one character that is no flag.
ArgOf(tok) ==
    IF IsLongForm(tok) THEN FindArgByWord(args_, KeyText(tok))
    ELSE IF IsShortForm(tok) /\ Len(KeyText(tok)) = 1 /\ ~IsFlagChar(tok[2])
    THEN FindByChar(args_, tok[2])
    ELSE 0
\* '--key=' or '-k=': the '=' is there and nothing follows it.
HasEmptyInlineValue(tok) ==
    /\ HasInlineValue(tok)
    /\ Len(tok) = (IF IsLongForm(tok) THEN 2 ELSE 1) + Len(KeyText(tok)) + 1
\* The handler ended the call at the token at k.
StoppedAt(k) == \E m \in CallsAt(k) : calls[m].ret = "Terminate"
\* What the variable holds when it holds the text: the text, or for an
\* Optional destination the engaged optional.
Holding(a, text) == IF args_[a].kind = "Optional" THEN Some(text) ELSE text

\* C13: a key token that ends in '=' hands the empty text to the coercion of
\* its entry: a string destination becomes empty, a bool, numeric or char
\* destination keeps its value and one 'Unexpected format for argument' error
\* is reported; the following token is not taken as the value, and unless
\* the handler ended the call it is read as a token of its own.
C13_EmptyInlineValue ==
    \A k \in KeyReads :
        (HasEmptyInlineValue(Token(k)) /\ ArgOf(Token(k)) # 0) =>
            LET a == ArgOf(Token(k)) IN
            /\ \E m \in SetsAt(k) :
                  /\ SetsAt(k) = {m}
                  /\ sets[m].family = "arg" /\ sets[m].entry = a
                  /\ sets[m].input = <<>>
                  /\ IF args_[a].type = "string"
                     THEN /\ sets[m].ok
                          /\ sets[m].stored = Holding(a, <<>>)
                          /\ CallsAt(k) = {}
                     ELSE /\ ~sets[m].ok
                          /\ sets[m].stored = sets[m].before
                          /\ Cardinality(CallsAt(k)) = 1
                          /\ \A c \in CallsAt(k) :
                                calls[c].kind = "UnexpectedFormatForArgument"
            /\ ~TookValue(k)
            /\ (pc = "done" /\ k < LastIndex /\ ~StoppedAt(k)) => (k + 1) \in KeyReads

\* '--view=' emptied the string and the '-f' after it set the flag.
C13_Witness ==
    /\ pc = "done"
    /\ argv = << <<>>, <<"-","-","v","i","e","w","=">>, <<"-","f">> >>
    /\ entryStore.viewArg = <<"d">>
    /\ store.viewArg = <<>>
    /\ store.flag = TRUE
    /\ calls = <<>>

\* C14: a key token without inline value that is no flag, and not the last
\* token, takes the next token whole as its value: the next token is never
\* read as a token of its own, sets nothing and causes no report of its own,
\* even if it begins with '-' or '--' or names a registered flag or key; when
\* the key is registered, the coercion receives exactly that token.
C14_DetachedValue ==
    \A k \in KeyReads :
        (NeedsDetachedValue(Token(k)) /\ k < LastIndex) =>
            /\ TookValue(k)
            /\ (k + 1) \notin KeyReads
            /\ SetsAt(k + 1) = {}
            /\ CallsAt(k + 1) = {}
            /\ ArgOf(Token(k)) # 0 =>
                  \E m \in SetsAt(k) :
                      /\ SetsAt(k) = {m}
                      /\ sets[m].family = "arg"
                      /\ sets[m].entry = ArgOf(Token(k))
                      /\ sets[m].input = Token(k + 1)

\* '-i' '-5' stored -5 and '-v' '-f' stored the text "-f"; the flag f, which
\* the last token names, kept its default.
C14_Witness ==
    /\ pc = "done"
    /\ argv = << <<>>, <<"-","i">>, <<"-","5">>, <<"-","v">>, <<"-","f">> >>
    /\ store.intArg = -5
    /\ store.viewArg = <<"-","f">>
    /\ store.flag = FALSE
    /\ KeyReads = {1, 3}
    /\ calls = <<>>

\* The value texts the specification names as rejected: no bool keyword for
\* a bool destination, no digit at the start (after a sign) for an integer
\* destination, a length other than one for a char destination.
NoLeadingDigit(text) ==
    LET u == IF text # <<>> /\ text[1] = "-" THEN Tail(text) ELSE text
    IN  u = <<>> \/ u[1] \notin DecChars
NamedAsRejected(a, text) ==
    CASE args_[a].type = "bool" -> text \notin (TrueSpellings \cup FalseSpellings)
      [] args_[a].type \in IntegerTypes -> NoLeadingDigit(text)
      [] args_[a].type = "char" -> Len(text) # 1
      [] OTHER -> FALSE

\* C15: a value text that is no bool keyword, has no leading digit or, for a
\* char destination, has not length one is rejected; whenever the coercion
\* rejects a value the variable keeps the value it had, the handler receives
\* exactly one 'Unexpected format for argument' error for that token,
\* carrying the key and the rejected text, and parse returns false.
C15_CoercionFailure ==
    \A m \in 1..Len(sets) :
        sets[m].family = "arg" =>
            /\ NamedAsRejected(sets[m].entry, sets[m].input) => ~sets[m].ok
            /\ ~sets[m].ok =>
                  /\ sets[m].stored = sets[m].before
                  /\ Cardinality(CallsAt(sets[m].at)) = 1
                  /\ \A c \in CallsAt(sets[m].at) :
                        /\ calls[c].kind = "UnexpectedFormatForArgument"
                        /\ calls[c].parts = <<KeyText(Token(sets[m].at)), sets[m].input>>
                  /\ ~success
                  /\ pc = "done" => result = Some(FALSE)

\* '--bool=true' then '-b=x': the second value was rejected, the variable
\* stayed true, the handler got the key b with the text x, parse returned false.
C15_Witness ==
    /\ pc = "done"
    /\ argv = << <<>>, <<"-","-","b","o","o","l","=","t","r","u","e">>,
                 <<"-","b","=","x">> >>
    /\ store.boolArg = TRUE
    /\ Len(calls) = 1
    /\ calls[1].kind = "UnexpectedFormatForArgument"
    /\ calls[1].parts = << <<"b">>, <<"x">> >>
    /\ result = Some(FALSE)

\* The Optional destinations, and the value a text denotes for the type an
\* Optional wraps: the text itself for a string, the number for a numeral.
OptionalEntries == { a \in 1..Len(args_) : args_[a].kind = "Optional" }
First(S) == CHOOSE m \in S : \A n \in S : m <= n
ParsedValue(a, text) ==
    IF args_[a].type = "string" THEN text ELSE NumeralValue(text)

\* C16: an Optional variable that was unset when parse was called is unset
\* as long as no token resolved to its entry with a successful coercion: a
\* key that never appears, or whose every value is rejected, leaves it
\* unset.  The first successful coercion makes it hold the parsed value and
\* a later success replaces that value.
C16_OptionalUnsetUntilParsed ==
    \A a \in OptionalEntries :
        entryStore[args_[a].ref] = nullopt =>
            /\ OkSetsOn(a) = {} => store[args_[a].ref] = nullopt
            /\ OkSetsOn(a) # {} =>
                  /\ sets[First(OkSetsOn(a))].before = nullopt
                  /\ sets[First(OkSetsOn(a))].stored =
                        Some(ParsedValue(a, sets[First(OkSetsOn(a))].input))
                  /\ store[args_[a].ref] =
                        Some(ParsedValue(a, sets[Last(OkSetsOn(a))].input))
            /\ \A m \in SetsOn(a) : ~sets[m].ok => sets[m].stored = sets[m].before

\* '-o=z' was rejected and left the Optional unset, then '-o' '7' made it
\* hold 7; the other Optional, whose key did not appear, is still unset.
C16_Witness ==
    /\ pc = "done"
    /\ argv = << <<>>, <<"-","o","=","z">>, <<"-","o">>, <<"7">> >>
    /\ \E a \in OptionalEntries :
          /\ args_[a].ref = "optInt"
          /\ Cardinality(SetsOn(a)) = 2
          /\ sets[First(SetsOn(a))].stored = nullopt
    /\ store.optInt = Some(7)
    /\ store.optStr = nullopt

\* The variable the m-th set call of the current parse call refers to.
RefOfSet(m) ==
    IF sets[m].family = "flag" THEN flags_[sets[m].entry].ref
    ELSE args_[sets[m].entry].ref

\* C17: during and after a parse call every variable holds the value it had
\* when the call began (its value at registration on a fresh parser, or what
\* an earlier parse call left in it) unless a token of this call resolved to
\* its entry and the set succeeded; a variable that changed holds what the
\* last such set stored.
C17_Frame ==
    \A c \in DOMAIN store :
        LET touched == { m \in 1..Len(sets) : RefOfSet(m) = c /\ sets[m].ok } IN
        /\ touched = {} => store[c] = entryStore[c]
        /\ touched # {} => store[c] = sets[Last(touched)].stored

\* A second call on the same parser set only the flag; the integer still
\* holds the 5 the first call stored, not its value at registration.
C17_Witness ==
    /\ pc = "done"
    /\ parseCalls = 2
    /\ argv = << <<>>, <<"-","f">> >>
    /\ entryStore.intArg = 5
    /\ MixedStore.intArg = 0
    /\ store = [entryStore EXCEPT !.flag = TRUE]
    /\ entryStore.flag = FALSE

\* The entries of the registry, flags and valued arguments together.
EntryIds == ({"flag"} \X (1..Len(flags_))) \cup ({"arg"} \X (1..Len(args_)))
EntryOf(e) == IF e[1] = "flag" THEN flags_[e[2]] ELSE args_[e[2]]
SharesKey(b, charKey, wordKey) ==
    \/ charKey # nullopt /\ b.charKey = charKey
    \/ wordKey # nullopt /\ b.wordKey = wordKey
WellFormedKeys(charKey, wordKey) ==
    /\ charKey # nullopt \/ wordKey # nullopt
    /\ wordKey # nullopt => (wordKey[1] # <<>> /\ wordKey[1][1] # "-")
AllVerifiedUnique == \A k \in 1..Len(pushes) : pushes[k].call.verifyUnique

\* C18: every entry of the registry has at least one key and no word key
\* that is empty or begins with '-'; when every registration was made with
\* verifyUnique = true no two entries, flags and valued arguments together,
\* share a char key or a word key.  A registration that violates one of
\* these is ended by the assertion: it adds no entry and the error handler
\* is not called.
C18_RegistryKeyInvariant ==
    /\ Len(flags_) + Len(args_) = Len(pushes)
    /\ \A e \in EntryIds :
          WellFormedKeys(EntryOf(e).base.charKey, EntryOf(e).base.wordKey)
    /\ AllVerifiedUnique =>
          \A e1 \in EntryIds, e2 \in EntryIds :
              e1 # e2 => ~SharesKey(EntryOf(e1).base, EntryOf(e2).base.charKey,
                                    EntryOf(e2).base.wordKey)
    /\ \A k \in 1..Len(pushes) :
          WellFormedKeys(pushes[k].call.charKey, pushes[k].call.wordKey)
    /\ aborted # nullopt =>
          /\ \/ ~WellFormedKeys(aborted[1].charKey, aborted[1].wordKey)
             \/ /\ aborted[1].verifyUnique
                /\ \E e \in EntryIds :
                      SharesKey(EntryOf(e).base, aborted[1].charKey, aborted[1].wordKey)
          /\ \A e \in EntryIds : EntryOf(e).ref # aborted[1].ref
          /\ calls = <<>>
          /\ parseCalls = 0

\* The flag was registered under 'a' and 'w'; the push of the string under
\* 'a', checked for uniqueness, was ended by the assertion.
C18_Witness ==
    /\ Len(flags_) = 1 /\ Len(args_) = 0
    /\ flags_[1].base.charKey = Some("a")
    /\ flags_[1].base.wordKey = Some(<<"w">>)
    /\ AllVerifiedUnique
    /\ aborted # nullopt
    /\ aborted[1].ref = "strVar"
    /\ aborted[1].verifyUnique
    /\ aborted[1].charKey = Some("a")
    /\ aborted[1].wordKey = nullopt

\* The vectors that address a key in the forms the specification gives: the
\* flag token for a flag, the key with the value "1" attached or detached
\* for a valued argument.
ShortKey(c) == <<"-", c>>
LongKey(w) == <<"-", "-">> \o w
VectorsFor(e, short, key) ==
    LET tok == IF short THEN ShortKey(key) ELSE LongKey(key) IN
    IF e[1] = "flag" THEN { << <<>>, tok >> }
    ELSE { << <<>>, tok \o <<"=", "1">> >>, << <<>>, tok, <<"1">> >> }
\* Parsing the vector makes exactly one set call, on the entry e.
ResolvesTo(v, e) ==
    LET r == RunParse([flags |-> flags_, args |-> args_, argv |-> v,
                       reportUnknown |-> FALSE, voidHandler |-> TRUE],
                      ParseEntry(store), "Continue")
    IN  /\ Len(r.sets) = 1
        /\ r.sets[1].family = e[1]
        /\ r.sets[1].entry = e[2]
\* The key text by which the token at k addressed the entry of the set call
\* m: a character of the token for a flag in a short-form token, else the
\* text between the dashes and the '='.
AddressedBy(m, key) ==
    LET tok == Token(sets[m].at) IN
    IF sets[m].family = "flag" /\ IsShortForm(tok)
    THEN \E j \in 2..Len(tok) : <<tok[j]>> = key
    ELSE KeyText(tok) = key

\* C19 as stated: for every entry of the registry and each of its keys some
\* token, or key and value, makes parse resolve to exactly that entry; and a
\* token resolves to an entry only by the entry's own char key or word key.
C19_EveryKeyReachesItsEntry ==
    /\ pc = "idle" =>
          \A e \in EntryIds :
              LET b == EntryOf(e).base IN
              /\ b.charKey # nullopt =>
                    \E v \in VectorsFor(e, TRUE, b.charKey[1]) : ResolvesTo(v, e)
              /\ b.wordKey # nullopt =>
                    \E v \in VectorsFor(e, FALSE, b.wordKey[1]) : ResolvesTo(v, e)
    /\ \A m \in 1..Len(sets) :
          LET b == (IF sets[m].family = "flag" THEN flags_[sets[m].entry]
                    ELSE args_[sets[m].entry]).base
          IN  \/ b.charKey # nullopt /\ AddressedBy(m, b.charKey)
              \/ b.wordKey # nullopt /\ AddressedBy(m, b.wordKey[1])


\* When parse can resolve a token to the entry e by its char key (short) or
\* by its word key: the key text must not hold the '=' at which splitCmd
\* cuts the token, and no entry that parse looks at first may hold the same
\* key.  A flag is found by its char key whatever the character is; for a
\* char key the flags come before the valued arguments, for a word key a
\* token with an attached value is looked up among the valued arguments only.
NoParamDelim(w) == \A k \in 1..Len(w) : w[k] # "="
ReachableBy(e, short) ==
    LET b == EntryOf(e).base
        family == IF e[1] = "flag" THEN flags_ ELSE args_
    IN  IF short
        THEN /\ \A k \in 1..(e[2] - 1) : family[k].base.charKey # b.charKey
             /\ e[1] = "arg" =>
                   /\ b.charKey[1] # "="
                   /\ \A k \in 1..Len(flags_) : flags_[k].base.charKey # b.charKey
        ELSE /\ NoParamDelim(b.wordKey[1])
             /\ \A k \in 1..(e[2] - 1) : family[k].base.wordKey # b.wordKey

\* C19 (amended): an entry is reached by one of its keys exactly when the key
\* holds no '=' (a flag's char key may) and no entry that parse consults
\* before it holds the same key; so every entry registered with
\* verifyUnique = true under keys without '=' is reached by each of its keys.
\* A token resolves to an entry only by the entry's own char or word key.
C19_ReachableUnlessCutOrShadowed ==
    /\ pc = "idle" =>
          \A e \in EntryIds :
              LET b == EntryOf(e).base IN
              /\ b.charKey # nullopt =>
                    ((\E v \in VectorsFor(e, TRUE, b.charKey[1]) : ResolvesTo(v, e))
                        <=> ReachableBy(e, TRUE))
              /\ b.wordKey # nullopt =>
                    ((\E v \in VectorsFor(e, FALSE, b.wordKey[1]) : ResolvesTo(v, e))
                        <=> ReachableBy(e, FALSE))
              /\ (AllVerifiedUnique /\ b.charKey # Some("=")
                  /\ (b.wordKey # nullopt => NoParamDelim(b.wordKey[1]))) =>
                    /\ b.charKey # nullopt => ReachableBy(e, TRUE)
                    /\ b.wordKey # nullopt => ReachableBy(e, FALSE)
    /\ \A m \in 1..Len(sets) :
          LET e == <<sets[m].family, sets[m].entry>>
              b == EntryOf(e).base
          IN  \/ b.charKey # nullopt /\ AddressedBy(m, b.charKey)
                   /\ ReachableBy(e, TRUE)
              \/ b.wordKey # nullopt /\ AddressedBy(m, b.wordKey[1])
                   /\ ReachableBy(e, FALSE)

\* The flag holds 'a' and "w"; the string, registered after it with the
\* uniqueness check waived, holds the same keys.  '--w=1' reaches the string,
\* no token reaches it by 'a'.
C19_Witness ==
    /\ pc = "idle"
    /\ Len(flags_) = 1 /\ Len(args_) = 1
    /\ flags_[1].base.charKey = Some("a") /\ flags_[1].base.wordKey = Some(<<"w">>)
    /\ args_[1].base.charKey = Some("a") /\ args_[1].base.wordKey = Some(<<"w">>)
    /\ args_[1].ref = "strVar"
    /\ ResolvesTo(<< <<>>, <<"-","-","w","=","1">> >>, <<"arg", 1>>)
    /\ ~ReachableBy(<<"arg", 1>>, TRUE)
    /\ \A v \in VectorsFor(<<"arg", 1>>, TRUE, "a") : ~ResolvesTo(v, <<"arg", 1>>)

\* The entry the k-th accepted registration added.
EntryOfPush(k) ==
    LET same == { j \in 1..k : pushes[j].call.op = pushes[k].call.op } IN
    IF pushes[k].call.op = "pushFlag" THEN flags_[Cardinality(same)]
    ELSE args_[Cardinality(same)]
\* The textual form of the value a variable held at registration.
DefaultText(call, value) ==
    CASE call.type = "bool" -> BoolStr(value)
      [] call.type \in IntegerTypes -> toString(value)
      [] call.type = "char" -> <<value>>
      [] OTHER -> IF value = <<>> THEN <<>> ELSE <<"\"">> \o value \o <<"\"">>
\* The end of the help line of the k-th registration as the specification
\* gives it.
LeftPad(text, width) ==
    (IF Len(text) < width THEN Repeat(" ", width - Len(text)) ELSE <<>>) \o text
ExpectedLineEnd(k) ==
    LET c == pushes[k].call IN
    (IF c.optional THEN Repeat(".", 18) \o <<" ">>
     ELSE <<"[","d","e","f","a","u","l","t",":"," ">>
          \o LeftPad(DefaultText(c, pushes[k].value), 7) \o <<"]"," ">>)
    \o c.description \o <<"\n">>
Contains(text, part) ==
    \E from \in 1..(Len(text) - Len(part) + 1) :
        SubSeq(text, from, from + Len(part) - 1) = part

\* C20: the entry of every flag and every non-optional valued argument
\* records as its default-value text the textual form of the value its
\* variable held at registration and as its description the description the
\* caller passed, and its help line ends '[default: <default value>]
\* <description>'; an Optional entry records no default text and its line
\* ends with the dotted spacer and the description.
C20_HelpMetadata ==
    \A k \in 1..Len(pushes) :
        LET c == pushes[k].call
            b == EntryOfPush(k).base
        IN  /\ b.description = c.description
            /\ b.defaultValStr =
                  IF c.optional THEN <<>> ELSE DefaultText(c, pushes[k].value)
            /\ helpText # nullopt => Contains(helpText[1], ExpectedLineEnd(k))

\* One sequence continues the other, and by how many entries.
IsPrefix(a, b) == Len(a) <= Len(b) /\ SubSeq(b, 1, Len(a)) = a
Grown == (Len(flags_') + Len(args_')) - (Len(flags_) + Len(args_))
NewEntry == IF Len(flags_') > Len(flags_) THEN flags_'[Len(flags_')]
            ELSE args_'[Len(args_')]

\* C21: every step keeps the entries that are there, in their places and
\* unchanged, and adds at most one.  A step that adds one is a registration:
\* the new entry refers to the variable of the call and the variable is left
\* holding the entry's default (for a flag its defaultVal), which is the value
\* it had before.  A step of parse or getHelpText leaves the registry as it is.
C21_RegistryAppendOnly ==
    [][ /\ IsPrefix(flags_, flags_') /\ IsPrefix(args_, args_')
        /\ Grown \in {0, 1}
        /\ Grown = 1 =>
              /\ pc = "idle" /\ pc' = "idle"
              /\ Len(pushes') = Len(pushes) + 1
              /\ NewEntry.ref = pushes'[Len(pushes')].call.ref
              /\ store' = store
              /\ store'[NewEntry.ref] = pushes'[Len(pushes')].value
              /\ NewEntry.kind = "Flag" => store'[NewEntry.ref] = NewEntry.defaultVal
        /\ (pc # "idle" \/ pc' # "idle" \/ helpText' # helpText) => Grown = 0
      ]_vars

\* Two registrations were followed by a parse call that set the flag; the
\* registry still holds the two entries.
C21_Witness ==
    /\ pc = "done"
    /\ Len(pushes) = 2 /\ Len(flags_) = 1 /\ Len(args_) = 1
    /\ flags_[1].ref = pushes[1].call.ref
    /\ args_[1].ref = pushes[2].call.ref
    /\ \E m \in 1..Len(sets) : sets[m].family = "flag" /\ sets[m].stored = TRUE
    /\ flags_[1].defaultVal = FALSE


\* C22: for an unsigned destination a negative decimal token, whose value is
\* below the destination's lowest value 0, succeeds and stores 0, and no
\* error is reported for it.
C22_NegativeClampsToZero ==
    \A m \in IntegerSets :
        LET v == sets[m].input IN
        ( IsUnsignedType(TypeOfSet(m)) /\ IsDecNumeral(v) /\ IsNegative(v)
          /\ NumeralValue(v) < 0 )
        => /\ sets[m].ok
           /\ sets[m].stored = 0
           /\ CallsAt(sets[m].at) = {}


\* The leading run of flag characters of a short-form token: how many of the
\* characters after '-' are char keys of flags, up to the first that is not.
RECURSIVE ChainLength(_, _)
ChainLength(tok, j) ==
    IF j <= Len(tok) /\ IsFlagChar(tok[j]) THEN 1 + ChainLength(tok, j + 1) ELSE 0
IsFlagChain(tok) == IsShortForm(tok) /\ IsFlagChar(tok[2])
\* The place in the set log of the first set of the token at k.
FirstSetAt(k) == CHOOSE m \in SetsAt(k) : \A n \in SetsAt(k) : m <= n

\* C23: a short-form token whose first character after '-' is a flag's char
\* key causes exactly one set per character of its leading run of flag
\* characters, in order, each leaving that flag at the opposite of its
\* default; nothing else is set by the token (no flag named after the first
\* non-flag character, no valued argument), the following token is not taken
\* as a value and, unless the handler ended the call, is dispatched on its own.
C23_FlagChainOnly ==
    \A k \in KeyReads :
        LET tok == Token(k)
            n == ChainLength(tok, 2)
        IN  IsFlagChain(tok) =>
               /\ Cardinality(SetsAt(k)) = n
               /\ \A j \in 1..n :
                     LET m == FirstSetAt(k) + j - 1 IN
                     /\ m \in SetsAt(k)
                     /\ sets[m].family = "flag"
                     /\ flags_[sets[m].entry].base.charKey = <<tok[j + 1]>>
                     /\ sets[m].stored = ~flags_[sets[m].entry].defaultVal
               /\ ~TookValue(k)
               /\ (pc = "done" /\ k < LastIndex /\ ~StoppedAt(k)) => (k + 1) \in KeyReads

\* '-axb' set a and not b, '-ai=5' left the int8_t alone, and after '-bi' the
\* token 'fA' was dispatched on its own.
C23_Witness ==
    /\ pc = "done"
    /\ \/ /\ argv = << <<>>, <<"-","a","x","b">>, <<"-","a","i","=","5">> >>
          /\ store.flagA = TRUE /\ store.flagB = FALSE /\ store.intArg = 0
       \/ /\ argv = << <<>>, <<"-","b","i">>, <<"f","A">> >>
          /\ store.flagB = TRUE /\ store.intArg = 0
          /\ \E m \in CallsAt(2) : calls[m].kind = "UnrecognizedCommandFormat"


\* A token of none of the two forms, and a short-form token that starts no
\* flag chain and whose key part is not one character.
HasNoForm(tok) == tok = <<>> \/ tok = <<"-">> \/ tok[1] # "-"
HasBadKeyPart(tok) ==
    IsShortForm(tok) /\ ~IsFlagChar(tok[2]) /\ Len(KeyText(tok)) # 1
\* The token at k caused exactly one error, of the kind, and no set; the
\* call it belongs to returns false.
OneErrorNoWrite(k, kind) ==
    /\ Cardinality(CallsAt(k)) = 1
    /\ \A m \in CallsAt(k) : calls[m].kind = kind
    /\ SetsAt(k) = {}
    /\ pc = "done" => result = Some(FALSE)

\* C24 as stated: a dispatched token that is empty, is '-' or does not start
\* with '-' causes one 'Unrecognized command format' error, a dispatched
\* short-form token with a non-flag first character and a key part that is
\* not one character causes one 'unexpected format' error; neither writes a
\* variable and the call returns false.
C24_StructuralErrors ==
    \A k \in KeyReads :
        /\ HasNoForm(Token(k)) => OneErrorNoWrite(k, "UnrecognizedCommandFormat")
        /\ HasBadKeyPart(Token(k)) => OneErrorNoWrite(k, "UnexpectedCommandFormat")

\* C24 (amended): as stated for the tokens of no form.  A short-form token
\* with a non-flag first character and a key part that is not one character
\* first looks for its value: with an inline value, or with a token after it
\* (which is taken as the value and not dispatched), it causes one
\* 'unexpected format' error; as the last token without inline value it
\* causes one 'Unexpected termination' error instead.  In every case no
\* variable is written and the call returns false.
C24_StructuralErrorsAfterValueLookup ==
    \A k \in KeyReads :
        LET tok == Token(k) IN
        /\ HasNoForm(tok) => OneErrorNoWrite(k, "UnrecognizedCommandFormat")
        /\ HasBadKeyPart(tok) =>
              IF HasInlineValue(tok)
              THEN OneErrorNoWrite(k, "UnexpectedCommandFormat") /\ ~TookValue(k)
              ELSE IF k < LastIndex
              THEN /\ OneErrorNoWrite(k, "UnexpectedCommandFormat")
                   /\ TookValue(k)
                   /\ (k + 1) \notin KeyReads
              ELSE /\ OneErrorNoWrite(k, "UnexpectedTermination")
                   /\ ~TookValue(k)

\* 'fA' and '-ia=5' were reported and wrote nothing, and '-xi' took '-a' as
\* its value before it was reported.
C24_Witness ==
    /\ pc = "done"
    /\ result = Some(FALSE)
    /\ store = DispatchStore
    /\ \/ /\ argv = << <<>>, <<"f","A">>, <<"-","i","a","=","5">> >>
          /\ Len(calls) = 2
       \/ /\ argv = << <<>>, <<"-","x","i">>, <<"-","a">> >>
          /\ Len(calls) = 1 /\ calls[1].kind = "UnexpectedCommandFormat"
          /\ TookValue(1)


\* The entries of a family that hold a key, as char key or as word key, and
\* the one of them that was registered first.
HoldsKey(entry, short, key) ==
    IF short THEN entry.base.charKey = <<key>> ELSE entry.base.wordKey = <<key>>
Holders(family, short, key) ==
    IF family = "flag"
    THEN { f \in 1..Len(flags_) : HoldsKey(flags_[f], short, key) }
    ELSE { a \in 1..Len(args_) : HoldsKey(args_[a], short, key) }
IsEarliest(family, e, short, key) ==
    /\ e \in Holders(family, short, key)
    /\ \A o \in Holders(family, short, key) : e <= o
\* The key by which the set at place m of the log was addressed: the word of
\* a long-form token, the character of the chain for a flag set by a
\* short-form token, the one-character key part for a valued argument.
SetIsShort(m) == ~IsLongForm(Token(sets[m].at))
SetKey(m) ==
    LET tok == Token(sets[m].at) IN
    IF IsLongForm(tok) THEN KeyText(tok)
    ELSE IF sets[m].family = "flag" THEN tok[m - FirstSetAt(sets[m].at) + 2]
    ELSE KeyText(tok)[1]
\* The key a dispatched key token asks for first: its word, or the character
\* after '-'.
AskedKey(tok) == IF IsLongForm(tok) THEN KeyText(tok) ELSE tok[2]
IsKeyToken(tok) == IsLongForm(tok) \/ IsShortForm(tok)
EarliestOfItsFamily(m) == IsEarliest(sets[m].family, sets[m].entry, SetIsShort(m), SetKey(m))

\* C25 as stated: every set is made on the earliest registered entry of its
\* family that holds the key; and for a key that a flag and a valued
\* argument both hold, every dispatched token asking for the key writes the
\* flag and no token ever writes the valued argument through the key.
C25_FlagAlwaysShadows ==
    /\ \A m \in 1..Len(sets) :
          /\ EarliestOfItsFamily(m)
          /\ sets[m].family = "arg" => Holders("flag", SetIsShort(m), SetKey(m)) = {}
    /\ \A k \in KeyReads :
          LET tok == Token(k) IN
          (IsKeyToken(tok) /\ Holders("flag", ~IsLongForm(tok), AskedKey(tok)) # {})
          => \E m \in SetsAt(k) : sets[m].family = "flag" /\ SetKey(m) = AskedKey(tok)

\* C25 (amended): every set is made on the earliest registered entry of its
\* family that holds the key.  A short-form token, and a long-form token
\* without inline value, whose key a flag holds writes the earliest such flag
\* and no valued argument, wherever the flag was registered.  A long-form
\* token with inline value is never looked up among the flags: it writes the
\* earliest valued argument that holds the word, also when a flag holds it.
C25_FlagsFirstUnlessInlineWord ==
    /\ \A m \in 1..Len(sets) : EarliestOfItsFamily(m)
    /\ \A k \in KeyReads :
          LET tok == Token(k)
              short == ~IsLongForm(tok)
          IN  IsKeyToken(tok) =>
                IF IsLongForm(tok) /\ HasInlineValue(tok)
                THEN /\ \A m \in SetsAt(k) : sets[m].family = "arg"
                     /\ Holders("arg", FALSE, AskedKey(tok)) # {} =>
                           \E m \in SetsAt(k) : SetKey(m) = AskedKey(tok)
                ELSE Holders("flag", short, AskedKey(tok)) # {} =>
                        /\ \A m \in SetsAt(k) : sets[m].family = "flag"
                        /\ \E m \in SetsAt(k) : SetKey(m) = AskedKey(tok)

\* '-k' wrote the first flag, which was registered after the first integer,
\* and '--k=1' the first integer; '-v' 's' wrote the first string.  The
\* second flag, integer and string were never written.
C25_Witness ==
    /\ pc = "done"
    /\ result = Some(TRUE)
    /\ \/ /\ argv = << <<>>, <<"-","k">>, <<"-","-","k","=","1">> >>
          /\ store = [ShadowStore EXCEPT !.flag1 = TRUE, !.int1 = 1]
       \/ /\ argv = << <<>>, <<"-","-","k">>, <<"-","v">>, <<"s">> >>
          /\ store = [ShadowStore EXCEPT !.flag1 = TRUE, !.str1 = <<"s">>]


\* The read log in the order of the reads.
ReadsInOrder == \A m, n \in 1..Len(reads) : m < n => reads[m].idx < reads[n].idx
ReadsInBounds == \A m \in 1..Len(reads) : reads[m].idx \in 1..LastIndex
\* After the handler answered Terminate for the token at k nothing was read
\* any more, and the call has returned false; the detached value of the
\* token at k itself was read before the handler was called.
TerminateEndsReading ==
    \A m \in 1..Len(calls) :
        calls[m].ret = "Terminate" =>
            /\ m = Len(calls)
            /\ pc = "done" /\ result = Some(FALSE)
            /\ \A r \in 1..Len(reads) :
                  reads[r].idx > calls[m].at =>
                      reads[r] = [idx |-> calls[m].at + 1, role |-> "value"]
CursorAdvances == (pc = "parsing" /\ pc' = "parsing") => (i' > i /\ i' <= Len(argv))
\* While the loop condition holds an iteration is possible, whatever the
\* handler answers, and it reads the token at the cursor.
IterationPossible ==
    LoopCondition =>
        \A ret \in {"Continue", "Terminate"} :
            LET s == ParseToken(CurCall, CurState, ret) IN
            /\ s.pc \in {"parsing", "done"}
            /\ Len(s.reads) > Len(reads)
            /\ s.reads[Len(reads) + 1] = [idx |-> i, role |-> "key"]

\* C26: every parse call returns, whatever the vector and whatever the
\* handler answers; while it runs the cursor i strictly increases and stays
\* within argc; every index is read at most once, as a key token or as a
\* detached value, and only indices in 1..argc-1 are read; once the handler
\* answers Terminate no further token is read.
C26_TerminatesWithinBounds ==
    /\ [](ReadsInOrder /\ ReadsInBounds /\ TerminateEndsReading /\ IterationPossible)
    /\ [][CursorAdvances]_vars
    /\ (pc = "parsing") ~> (pc = "done")

\* A call read all three tokens, one of them as a detached value, and
\* returned; another was ended by the handler at its first token.
C26_Witness ==
    /\ pc = "done"
    /\ \/ /\ Len(argv) = 4
          /\ { reads[m].idx : m \in 1..Len(reads) } = {1, 2, 3}
          /\ \E m \in 1..Len(reads) : reads[m].role = "value"
       \/ /\ Len(argv) = 4
          /\ Len(reads) = 1
          /\ Len(calls) = 1 /\ calls[1].ret = "Terminate"


\* A key token without inline value that names no flag: a long-form token
\* whose word is no flag's word key, or a short-form token whose first
\* character is no flag's char key.
IsValueSeekingKey(tok) ==
    /\ ~HasInlineValue(tok)
    /\ \/ IsLongForm(tok) /\ ~IsFlagWord(KeyText(tok))
       \/ IsShortForm(tok) /\ ~IsFlagChar(tok[2])
\* The key of the token is registered nowhere.
IsRegisteredNowhere(tok) ==
    IF IsLongForm(tok) THEN ~IsFlagWord(KeyText(tok)) /\ ~IsArgWord(KeyText(tok))
    ELSE \A j \in 1..Len(KeyText(tok)) :
            ~IsFlagChar(KeyText(tok)[j]) /\ ~IsArgChar(KeyText(tok)[j])

\* C27: a dispatched key token without inline value that names no flag, and
\* is not the last token, takes the token after it as its value, under
\* either policy and also when its key is registered nowhere; the token
\* taken is not dispatched: it sets nothing and nothing is reported for it.
C27_UnknownKeySwallowsValue ==
    \A k \in KeyReads :
        (IsValueSeekingKey(Token(k)) /\ k < LastIndex) =>
            /\ TookValue(k)
            /\ (k + 1) \notin KeyReads
            /\ SetsAt(k + 1) = {}
            /\ CallsAt(k + 1) = {}
            /\ IsRegisteredNowhere(Token(k)) =>
                  /\ SetsAt(k) = {}
                  /\ \A m \in CallsAt(k) :
                        reportUnknown /\ calls[m].kind = "UnrecognizedCommand"

\* The unknown key '--zz' took '-a' as its value: a stayed false and the
\* call succeeded under the ignore policy.
C27_Witness ==
    /\ pc = "done"
    /\ argv = << <<>>, <<"-","-","z","z">>, <<"-","a">> >>
    /\ ~reportUnknown
    /\ result = Some(TRUE)
    /\ store = DispatchStore
    /\ calls = <<>>


HasHexPrefix(v) ==
    LET u == Unsigned(v) IN
    Len(v) > 2 /\ Len(u) >= 2 /\ u[1] = "0" /\ u[2] \in {"x", "X"}
DetectedBase(v) == IF HasHexPrefix(v) THEN 16 ELSE 10
DigitsOfBase(base) == IF base = 16 THEN HexChars ELSE DecChars
AfterSignAndPrefix(v) ==
    LET u == Unsigned(v) IN IF HasHexPrefix(v) THEN SubSeq(u, 3, Len(u)) ELSE u
RECURSIVE LeadingRun(_, _)
LeadingRun(text, base) ==
    IF text # <<>> /\ text[1] \in DigitsOfBase(base)
    THEN <<text[1]>> \o LeadingRun(Tail(text), base)
    ELSE <<>>
HasLeadingDigit(v) == LeadingRun(AfterSignAndPrefix(v), DetectedBase(v)) # <<>>
PrefixValue(v) ==
    LET mag == PlaceValue(LeadingRun(AfterSignAndPrefix(v), DetectedBase(v)),
                          DetectedBase(v))
    IN  IF IsNegative(v) THEN 0 - mag ELSE mag
\* A '-' right after the hex prefix of a token without sign.
HasSignAfterPrefix(v) ==
    /\ HasHexPrefix(v) /\ ~IsNegative(v)
    /\ IsNegative(AfterSignAndPrefix(v))
    /\ LeadingRun(Tail(AfterSignAndPrefix(v)), 16) # <<>>
SignAfterPrefixValue(v) == 0 - PlaceValue(LeadingRun(Tail(AfterSignAndPrefix(v)), 16), 16)
ValueFitsAccumulator(type, val) ==
    IF IsUnsignedType(type) THEN val >= 0 /\ val <= Pow2(AccBits) - 1
    ELSE val >= 0 - Pow2(AccBits - 1) /\ val <= Pow2(AccBits - 1) - 1
Clamped(type, val) ==
    IF val > NumericMax(type) THEN NumericMax(type)
    ELSE IF val < NumericLowest(type) THEN NumericLowest(type)
    ELSE val

LaterSets(m) ==
    { n \in (m + 1)..Len(sets) : RefOfSet(n) = RefOfSet(m) /\ sets[n].ok }
\* How a failed call ended.
EndedByTruncation ==
    calls # <<>> /\ calls[Len(calls)].kind = "UnexpectedTermination"
EndedByTerminate ==
    calls # <<>> /\ calls[Len(calls)].ret = "Terminate" /\ ~EndedByTruncation
RanToEndAfterErrors ==
    calls # <<>> /\ ~EndedByTruncation /\ ~EndedByTerminate

\* C30: when parse has returned false, in whichever of the three ways, every
\* variable that a token set successfully holds what the last such set
\* stored: nothing that was written before or after an error is taken back.
C30_NoRollback ==
    (pc = "done" /\ result = Some(FALSE)) =>
        /\ EndedByTruncation \/ EndedByTerminate \/ RanToEndAfterErrors
        /\ \A m \in 1..Len(sets) :
              sets[m].ok =>
                  store[RefOfSet(m)] =
                      IF LaterSets(m) = {} THEN sets[m].stored
                      ELSE sets[Last(LaterSets(m))].stored

\* '-a' made a true and '-i=5' stored 5 before the call failed: at '-i'
\* without a value, at a '7' the handler answered with Terminate, or at a '7'
\* after which the call ran to its end.
C30_Witness ==
    /\ pc = "done"
    /\ result = Some(FALSE)
    /\ store = [DispatchStore EXCEPT !.flagA = TRUE, !.intArg = 5]
    /\ \/ /\ argv = << <<>>, <<"-","a">>, <<"-","i","=","5">>, <<"-","i">> >>
          /\ EndedByTruncation
       \/ /\ argv = << <<>>, <<"-","a">>, <<"-","i","=","5">>, <<"7">> >>
          /\ EndedByTerminate
       \/ /\ argv = << <<>>, <<"-","a">>, <<"7">>, <<"-","i","=","5">> >>
          /\ RanToEndAfterErrors

====
